---- MODULE Spec2Model ----
(***************************************************************************)
(* Model of the climate-index engine of clima.pinda                        *)
(* (data/scripts/calculate_metrics.py), of the year-by-year fetcher with   *)
(* its cache (fetch_climate_data.py) and of the gap-filling step of the    *)
(* cleaning script (process_climate_data.py).                              *)
(*                                                                         *)
(* Units.  Temperatures are integers in tenths of a degree Celsius and     *)
(* precipitation in tenths of a millimetre (the series explored hold       *)
(* multiples of 0.1 only), so 30.0 C is 300 and 1.0 mm is 10.              *)
(* Calendar thresholds are kept in hundredths of the value unit, because   *)
(* the linear-interpolation percentile of integers is a multiple of 1/100  *)
(* when the percentile is a whole number.  A missing value (numpy's nan)   *)
(* is the distinguished value NaN, and every comparison with it is false.  *)
(***************************************************************************)
EXTENDS Integers, Sequences, FiniteSets, TLC

VARIABLES
    flags,          \* RunEncoder input: the boolean day flags
    min_duration,   \* RunEncoder input: the minimal spell length
    max_run,        \* result of _max_consecutive(flags)
    spell_days,     \* result of _count_days_in_spells(flags, min_duration)
    precip_series,  \* one year of daily precipitation (tenths of mm or NaN)
    dry_flags,      \* the flags calculate_cdd builds
    wet_flags,      \* the flags calculate_cwd builds
    cdd,            \* result of calculate_cdd
    cwd,            \* result of calculate_cwd
    df,             \* the cleaned daily series: rows in date order
    column,         \* the column build_calendar_day_percentile is asked for
    percentile,     \* the percentile it is asked for
    p_by_doy,       \* its result for df: day-of-year -> threshold
    df_other,       \* a second daily series, for comparing two baselines
    p_other,        \* the result for df_other
    doy,            \* the loop variable of build_calendar_day_percentile
    doys_in_window, \* the pooling window of the current doy
    year_df,        \* the rows of one year, in date order
    p90_tmax,       \* calendar thresholds of T_max (hundredths of 0.1 C)
    p90_tmin,       \* calendar thresholds of T_min
    wsdi_days,      \* result of calculate_wsdi
    tx90p,          \* result of calculate_tx90p (hundredths of a percent)
    tn90p,          \* result of calculate_tn90p (hundredths of a percent)
    main_pc,        \* the step main() is at
    year_idx,       \* main: how many years of the loop are done
    p95_tmax_scalar,\* main: 95th percentile of all T_max
    records,        \* main: the annual rows built so far
    annual,         \* main: the annual table, once the anomaly is added
    series,         \* trend tests: the annual values of one metric
    trend_years,    \* trend tests: the years of those values
    mk,             \* result of mann_kendall_trend
    lr,             \* result of linear_regression_trend
    trend_rows,     \* main: one row of trend results per metric
    decadal,        \* main: the decadal table
    percentile_q,   \* a second, higher percentile for the same series
    p_by_doy_q,     \* the thresholds built for percentile_q
    pending,        \* days of the cycle whose threshold is not started yet
    windows,        \* day -> pooling window, for the days in progress
    result,         \* day -> threshold, for the days finished
    written,        \* the days finished, in the order of their writes
    fetch_pc,       \* fetch_year: where the call stands
    fetch_arg,      \* fetch_year: the year asked for
    attempt,        \* fetch_year: the loop variable
    fetch_data,     \* fetch_year: the response it returned
    events,         \* requests, waits, cache reads and writes, in order
    years,          \* merge_years_to_dataframe: the years requested
    year_i,         \* merge_years_to_dataframe: years of the loop done
    merge_pc,       \* merge_years_to_dataframe: where the call stands
    cache,          \* data/raw: year -> cached response
    frames,         \* merge_years_to_dataframe: the frames collected
    merged,         \* merge_years_to_dataframe: the table it returns
    run,            \* how many times the fetch script has been started
    raw_column,     \* cleaning: a numeric column after reindexing
    clean_column,   \* cleaning: the column after the interpolation step
    data_quality,   \* cleaning: the data_quality column
    clean_pc        \* cleaning: the step the script is at

runVars    == <<flags, min_duration, max_run, spell_days>>
precipVars == <<precip_series, dry_flags, wet_flags, cdd, cwd>>
baseVars   == <<df, column, percentile, p_by_doy, df_other, p_other>>
winVars    == <<doy, doys_in_window>>
yearVars   == <<year_df, p90_tmax, p90_tmin, wsdi_days, tx90p, tn90p>>
mainVars   == <<main_pc, year_idx, p95_tmax_scalar, records, annual,
                trend_rows, decadal>>
trendVars  == <<series, trend_years, mk, lr>>
quantVars  == <<percentile_q, p_by_doy_q>>
orderVars  == <<pending, windows, result, written>>
fetchVars  == <<fetch_pc, fetch_arg, attempt, fetch_data, events,
                years, year_i, merge_pc, cache, frames, merged, run>>
cleanVars  == <<raw_column, clean_column, data_quality, clean_pc>>
vars       == <<runVars, precipVars, baseVars, winVars, yearVars,
                mainVars, trendVars, quantVars, orderVars, fetchVars,
                cleanVars>>

----------------------------------------------------------------------------
(* Values *)

NaN    == 0 - 9999          \* np.nan: the "no value" marker
NotRun == 0 - 1             \* a result variable before its function ran
NotBuilt == << >>           \* a threshold mapping before it is built

IsNaN(x) == x = NaN

\* IEEE comparisons as pandas/numpy evaluate them: false when a side is nan
Lt(a, b) == ~IsNaN(a) /\ ~IsNaN(b) /\ a < b
Ge(a, b) == ~IsNaN(a) /\ ~IsNaN(b) /\ a >= b
Gt(a, b) == ~IsNaN(a) /\ ~IsNaN(b) /\ a > b

Max(a, b) == IF a >= b THEN a ELSE b

\* df[column] of one row
Col(row, c) == IF c = "temp_max" THEN row.temp_max ELSE row.temp_min

\* all sequences over S of length 0..n
SeqsUpTo(S, n) == UNION {[1..k -> S] : k \in 0..n}

----------------------------------------------------------------------------
(* Program constants (calculate_metrics.py) *)

BASELINE_START    == 1961
BASELINE_END      == 1990
WSDI_MIN_DURATION == 6
DRY_DAY_THRESHOLD == 10      \* 1.0 mm
WET_DAY_THRESHOLD == 10      \* 1.0 mm
SU25_THRESHOLD    == 250     \* 25.0 C
SU30_THRESHOLD    == 300     \* 30.0 C
TR20_THRESHOLD    == 200     \* 20.0 C
GDD_BASE          == 100     \* 10.0 C
AnomalyBaselineEnd == 1980   \* annual["year"] <= 1980
MinTrendPoints    == 3       \* "if n < 3" / "if len(x) < 3"

DaysInCycle == 366           \* range(1, 367) and "% 366"
window      == 2             \* +-2 days around the target day
MinPool     == 10            \* len(pool) >= 10

(* Program constants (fetch_climate_data.py) *)

START_YEAR   == 1940
MAX_RETRIES  == 3
BACKOFF_BASE == 1            \* seconds

(* Program constants (process_climate_data.py) *)

SHORT_GAP_MAX  == 3          \* consecutive NaN days -> linear interpolation
LONG_GAP_LABEL == "interpolated_long"

(* Bounds of the model *)

MaxFlags  == 8               \* longest flag sequence explored
MaxMinDur == 7               \* largest min_duration explored
MaxPrecip == 5               \* longest precipitation series explored
CoverRadius == 2             \* a year of df covers days 1-r .. 1+r (circular)
MaxWsdiDays == 8             \* longest year explored for the warm-spell index
MaxPctDays  == 3             \* longest year explored for the exceedance rates
MaxUndefDays == 7            \* longest year explored with undefined thresholds
MaxYearDays == 3             \* longest year explored for the annual record
NumYears    == 4             \* years explored for the annual table
MaxSeries   == 5             \* longest annual series explored by the trend tests
MaxFocusDays == 4            \* days of the cycle computed in any order
MaxFetchYears == 2           \* years asked of merge_years_to_dataframe
MaxRuns     == 2             \* times the fetch script is started
MaxCleanDays == 9            \* rows of the table the cleaning step is run on

MinDurations == (0 - 1)..MaxMinDur
PrecipValues == {NaN, 0, 9, 10, 50}   \* missing, 0, 0.9, 1.0, 5.0 mm

----------------------------------------------------------------------------
(* HELPER: consecutive-run counter *)

\* flags.any()
AnyTrue(f) == \E i \in 1..Len(f) : f[i]

\* the for loop of _max_consecutive from element i on, with its two locals
RECURSIVE MaxConsecutiveLoop(_, _, _, _)
MaxConsecutiveLoop(arr, i, current, maxrun) ==
    IF i > Len(arr) THEN maxrun
    ELSE IF arr[i]
         THEN MaxConsecutiveLoop(arr, i + 1, current + 1, Max(maxrun, current + 1))
         ELSE MaxConsecutiveLoop(arr, i + 1, 0, maxrun)

\* a slip: current is not reset when a run ends
RECURSIVE MaxConsecutiveLoopNoReset(_, _, _, _)
MaxConsecutiveLoopNoReset(arr, i, current, maxrun) ==
    IF i > Len(arr) THEN maxrun
    ELSE IF arr[i]
         THEN MaxConsecutiveLoopNoReset(arr, i + 1, current + 1, Max(maxrun, current + 1))
         ELSE MaxConsecutiveLoopNoReset(arr, i + 1, current, maxrun)

_max_consecutive_noreset(f) ==
    IF ~AnyTrue(f) THEN 0 ELSE MaxConsecutiveLoopNoReset(f, 1, 0, 0)

_max_consecutive(f) ==
    IF ~AnyTrue(f) THEN 0 ELSE MaxConsecutiveLoop(f, 1, 0, 0)

\* the inner while of _count_days_in_spells: first j >= i with j > n or ~arr[j]
RECURSIVE RunEnd(_, _)
RunEnd(arr, j) ==
    IF j <= Len(arr) /\ arr[j] THEN RunEnd(arr, j + 1) ELSE j

\* the outer while of _count_days_in_spells from position i on
RECURSIVE CountDaysLoop(_, _, _, _)
CountDaysLoop(arr, md, i, total) ==
    IF i > Len(arr) THEN total
    ELSE IF arr[i]
         THEN LET j       == RunEnd(arr, i)
                  run_len == j - i
              IN  CountDaysLoop(arr, md, j,
                                IF run_len >= md THEN total + run_len ELSE total)
         ELSE CountDaysLoop(arr, md, i + 1, total)

\* a slip: strict comparison, a run of exactly min_duration days is dropped
_count_days_in_spells_strict(f, md) == CountDaysLoop(f, md + 1, 1, 0)

_count_days_in_spells(f, md) == CountDaysLoop(f, md, 1, 0)

----------------------------------------------------------------------------
(* ADVANCED METRIC FUNCTIONS *)

\* a temperature in the unit of the thresholds
Scaled(v) == IF IsNaN(v) THEN NaN ELSE 100 * v

\* a slip: 0 instead of nan as the default of a day without an entry
GetDefaultZero(p90, key) == IF key \in DOMAIN p90 THEN p90[key] ELSE 0

\* p90.get(key, np.nan)
Get(p90, key) == IF key \in DOMAIN p90 THEN p90[key] ELSE NaN

\* a slip: ">=" instead of ">"
ExceedsInclusive(row, c, p90) == Ge(Scaled(Col(row, c)), Get(p90, row.day_of_year))

\* row[column] > p90.get(int(row["day_of_year"]), np.nan)
Exceeds(row, c, p90) == Gt(Scaled(Col(row, c)), Get(p90, row.day_of_year))

\* year_df.apply(lambda row: ..., axis=1)
ExceedFlags(ydf, c, p90) == [i \in 1..Len(ydf) |-> Exceeds(ydf[i], c, p90)]

calculate_wsdi(ydf, p90, md) ==
    _count_days_in_spells(ExceedFlags(ydf, "temp_max", p90), md)

\* round(num / den * 100, 2) in hundredths: the nearest integer to
\* 10000 * num / den, a tie going to the even one
RoundRate(num, den) ==
    LET q == (10000 * num) \div den
        r == (10000 * num) % den
    IN  IF 2 * r < den THEN q
        ELSE IF 2 * r > den THEN q + 1
        ELSE IF q % 2 = 0 THEN q ELSE q + 1

CountFlags(f) == Cardinality({i \in 1..Len(f) : f[i]})

calculate_tx90p(ydf, p90) ==
    LET total == Len(ydf)
    IN  IF total = 0 THEN NaN
        ELSE RoundRate(CountFlags(ExceedFlags(ydf, "temp_max", p90)), total)

calculate_tn90p(ydf, p90) ==
    LET total == Len(ydf)
    IN  IF total = 0 THEN NaN
        ELSE RoundRate(CountFlags(ExceedFlags(ydf, "temp_min", p90)), total)

----------------------------------------------------------------------------
(* Dry and wet spells *)

\* a slip: the dry side made inclusive, so that 1.0 mm is dry as well as wet
DryFlagsInclusive(p) ==
    [i \in 1..Len(p) |-> ~IsNaN(p[i]) /\ p[i] <= DRY_DAY_THRESHOLD]

\* precip_series < DRY_DAY_THRESHOLD
DryFlags(p) == [i \in 1..Len(p) |-> Lt(p[i], DRY_DAY_THRESHOLD)]

\* a slip: the wet side made exclusive, so that 1.0 mm is not wet
WetFlagsExclusive(p) == [i \in 1..Len(p) |-> Gt(p[i], WET_DAY_THRESHOLD)]

\* precip_series >= WET_DAY_THRESHOLD
WetFlags(p) == [i \in 1..Len(p) |-> Ge(p[i], WET_DAY_THRESHOLD)]


----------------------------------------------------------------------------
(* PERCENTILE BASELINES *)

\* the k-th smallest (k = 0 .. n-1) of a non-empty sequence of numbers
Kth(pool, k) ==
    CHOOSE v \in {pool[i] : i \in 1..Len(pool)} :
        /\ Cardinality({i \in 1..Len(pool) : pool[i] < v}) <= k
        /\ Cardinality({i \in 1..Len(pool) : pool[i] <= v}) > k

\* a slip: the fraction is measured back from the upper neighbour
PercentileFromAbove(pool, q) ==
    LET n   == Len(pool)
        pos == (n - 1) * q
        lo  == pos \div 100
        hi  == IF lo + 1 <= n - 1 THEN lo + 1 ELSE n - 1
        a   == Kth(pool, lo)
        b   == Kth(pool, hi)
    IN  100 * b - (pos % 100) * (b - a)

\* np.percentile(pool, q), method "linear", for a whole-number q, in
\* hundredths of the unit of the pool: the virtual index (n-1)*q/100 splits
\* into the order statistic below it and the fraction towards the next one
Percentile(pool, q) ==
    LET n   == Len(pool)
        pos == (n - 1) * q
        lo  == pos \div 100
        hi  == IF lo + 1 <= n - 1 THEN lo + 1 ELSE n - 1
        a   == Kth(pool, lo)
        b   == Kth(pool, hi)
    IN  100 * a + (pos % 100) * (b - a)

\* a slip: "% 365" wraps one day early
DoysInWindow365(d) ==
    [k \in 1..(2 * window + 1) |-> ((d - window + (k - 1) - 1) % 365) + 1]

\* [(doy - window + k - 1) % 366 + 1 for k in range(2 * window + 1)]
DoysInWindow(d) ==
    [k \in 1..(2 * window + 1) |-> ((d - window + (k - 1) - 1) % DaysInCycle) + 1]

InList(x, lst) == \E k \in 1..Len(lst) : lst[k] = x

\* a slip: the upper end of the baseline window is not applied
BaselineRowsNoEnd(d, c, baseline_start, baseline_end) ==
    SelectSeq(d, LAMBDA r : r.year >= baseline_start /\ ~IsNaN(Col(r, c)))

\* a slip: rows with a missing value stay in the baseline
BaselineRowsKeepNaN(d, c, baseline_start, baseline_end) ==
    SelectSeq(d, LAMBDA r : r.year >= baseline_start /\ r.year <= baseline_end)

\* df[(year >= baseline_start) & (year <= baseline_end)].dropna(subset=[column])
BaselineRows(d, c, baseline_start, baseline_end) ==
    SelectSeq(d, LAMBDA r : /\ r.year >= baseline_start
                            /\ r.year <= baseline_end
                            /\ ~IsNaN(Col(r, c)))

\* the values of a sequence of rows
ColumnOf(rows, c) == [i \in 1..Len(rows) |-> Col(rows[i], c)]

\* a slip: 0 instead of "no value" when the exact-day pool is empty
ThresholdOfDayZero(baseline, c, d, q) ==
    LET win  == DoysInWindow(d)
        pool == ColumnOf(SelectSeq(baseline,
                           LAMBDA r : InList(r.day_of_year, win)), c)
    IN  IF Len(pool) >= MinPool
        THEN Percentile(pool, q)
        ELSE LET pool_exact == ColumnOf(SelectSeq(baseline,
                                  LAMBDA r : r.day_of_year = d), c)
             IN  IF Len(pool_exact) > 0 THEN Percentile(pool_exact, q) ELSE 0

\* the body of the loop over doy
ThresholdOfDay(baseline, c, d, q) ==
    LET win  == DoysInWindow(d)
        pool == ColumnOf(SelectSeq(baseline,
                           LAMBDA r : InList(r.day_of_year, win)), c)
    IN  IF Len(pool) >= MinPool
        THEN Percentile(pool, q)
        ELSE LET pool_exact == ColumnOf(SelectSeq(baseline,
                                  LAMBDA r : r.day_of_year = d), c)
             IN  IF Len(pool_exact) > 0 THEN Percentile(pool_exact, q) ELSE NaN

\* the body of the loop over doy once doys_in_window is computed
ThresholdOfWindow(baseline, c, d, win, q) ==
    LET pool == ColumnOf(SelectSeq(baseline,
                           LAMBDA r : InList(r.day_of_year, win)), c)
    IN  IF Len(pool) >= MinPool
        THEN Percentile(pool, q)
        ELSE LET pool_exact == ColumnOf(SelectSeq(baseline,
                                  LAMBDA r : r.day_of_year = d), c)
             IN  IF Len(pool_exact) > 0 THEN Percentile(pool_exact, q) ELSE NaN

\* a slip: the mapping is a list and the value goes to its end
WriteDayAppend(res, d, value) ==
    LET k == Cardinality(DOMAIN res) + 1
    IN  [j \in DOMAIN res \cup {k} |-> IF j = k THEN value ELSE res[j]]

\* p_by_doy[doy] = value
WriteDay(res, d, value) ==
    [j \in DOMAIN res \cup {d} |-> IF j = d THEN value ELSE res[j]]

build_calendar_day_percentile(d, c, baseline_start, baseline_end, q) ==
    LET baseline == BaselineRows(d, c, baseline_start, baseline_end)
    IN  [dd \in 1..DaysInCycle |-> ThresholdOfDay(baseline, c, dd, q)]

----------------------------------------------------------------------------
(* ANNUAL METRICS: the body of the loop over the years in main() *)

\* ydf[name] as a sequence of values
Field(rows, name) == [i \in 1..Len(rows) |-> rows[i][name]]

\* Series.dropna()
DropNa(s) == SelectSeq(s, LAMBDA v : ~IsNaN(v))

RECURSIVE SumSeq(_)
SumSeq(s) == IF Len(s) = 0 THEN 0 ELSE s[1] + SumSeq(Tail(s))

\* round(num / den, k) in units of 10^-k: the integer nearest to num / den
\* (den > 0).  When num / den lies exactly half-way, the float that holds
\* the quotient decides the direction, so either neighbour can come out:
\* up selects which.
Round(num, den, up) ==
    LET q == num \div den
        r == num % den
    IN  IF 2 * r < den THEN q
        ELSE IF 2 * r > den THEN q + 1
        ELSE IF up THEN q + 1 ELSE q

\* a slip: 0 instead of nan for a column without a value
MeanRoundedZero(s, up) ==
    LET v == DropNa(s)
    IN  IF Len(v) = 0 THEN 0 ELSE Round(10 * SumSeq(v), Len(v), up)

\* round(float(s.mean()), 2) in hundredths, for s in tenths: nan-skipping
\* mean, nan when nothing is left
MeanRounded(s, up) ==
    LET v == DropNa(s)
    IN  IF Len(v) = 0 THEN NaN ELSE Round(10 * SumSeq(v), Len(v), up)

\* a - b of two columns: nan where either side is nan
Minus(a, b) == IF IsNaN(a) \/ IsNaN(b) THEN NaN ELSE a - b

\* a slip: ">" instead of ">="
CountAtLeastStrict(s, threshold) ==
    Cardinality({i \in 1..Len(s) : Gt(s[i], threshold)})

\* int((s >= threshold).sum())
CountAtLeast(s, threshold) ==
    Cardinality({i \in 1..Len(s) : Ge(s[i], threshold)})

\* a slip: the clamp at 0 is missing
DailyGddUnclamped(tmax, tmin) ==
    IF IsNaN(tmax) \/ IsNaN(tmin) THEN NaN
    ELSE (tmax + tmin) - 2 * GDD_BASE

\* np.maximum(0.0, (tmax + tmin) / 2.0 - GDD_BASE) of one day, in twentieths
\* of a degree; np.maximum hands a nan through
DailyGdd(tmax, tmin) ==
    IF IsNaN(tmax) \/ IsNaN(tmin) THEN NaN
    ELSE Max(0, (tmax + tmin) - 2 * GDD_BASE)

\* round(float(daily_gdd.sum()), 1) in tenths of a degree-day; Series.sum()
\* skips nan and is 0.0 when nothing is left
Gdd(ydf, up) ==
    LET daily_gdd == [i \in 1..Len(ydf) |->
                         DailyGdd(ydf[i].temp_max, ydf[i].temp_min)]
    IN  Round(SumSeq(DropNa(daily_gdd)), 2, up)

\* ydf[ydf["temp_max"] >= SU30_THRESHOLD]
HotDays(ydf) == SelectSeq(ydf, LAMBDA r : Ge(r.temp_max, SU30_THRESHOLD))

MinOf(s) == CHOOSE v \in {s[i] : i \in 1..Len(s)} :
                \A i \in 1..Len(s) : v <= s[i]
MaxOf(s) == CHOOSE v \in {s[i] : i \in 1..Len(s)} :
                \A i \in 1..Len(s) : v >= s[i]

\* a slip: the season length counts both end days
HotSeasonInclusive(ydf) ==
    LET hot_days == HotDays(ydf)
    IN  IF Len(hot_days) > 0
        THEN LET first_hot_day == MinOf(Field(hot_days, "day_of_year"))
                 last_hot_day  == MaxOf(Field(hot_days, "day_of_year"))
             IN  [first_hot_day     |-> first_hot_day,
                  last_hot_day      |-> last_hot_day,
                  hot_season_length |-> last_hot_day - first_hot_day + 1]
        ELSE [first_hot_day |-> NaN, last_hot_day |-> NaN,
              hot_season_length |-> 0]

\* first_hot_day, last_hot_day, hot_season_length; Python's None is the
\* "no value" marker here too
HotSeason(ydf) ==
    LET hot_days == HotDays(ydf)
    IN  IF Len(hot_days) > 0
        THEN LET first_hot_day == MinOf(Field(hot_days, "day_of_year"))
                 last_hot_day  == MaxOf(Field(hot_days, "day_of_year"))
             IN  [first_hot_day     |-> first_hot_day,
                  last_hot_day      |-> last_hot_day,
                  hot_season_length |-> last_hot_day - first_hot_day]
        ELSE [first_hot_day |-> NaN, last_hot_day |-> NaN,
              hot_season_length |-> 0]

\* the dict appended to records for one year
YearRecord(year, ydf, p90x, p90n, p95, up) ==
    LET tmax   == Field(ydf, "temp_max")
        tmin   == Field(ydf, "temp_min")
        precip == Field(ydf, "precipitation")
        hot    == HotSeason(ydf)
    IN  [year              |-> year,
         su25              |-> CountAtLeast(tmax, SU25_THRESHOLD),
         su30              |-> CountAtLeast(tmax, SU30_THRESHOLD),
         tr20              |-> CountAtLeast(tmin, TR20_THRESHOLD),
         dtr_mean          |-> MeanRounded([i \in 1..Len(ydf) |->
                                              Minus(tmax[i], tmin[i])], up),
         temp_max_mean     |-> MeanRounded(tmax, up),
         temp_min_mean     |-> MeanRounded(tmin, up),
         temp_mean_annual  |-> MeanRounded(Field(ydf, "temp_mean"), up),
         precip_total      |-> SumSeq(DropNa(precip)),
         precip_days       |-> CountAtLeast(precip, WET_DAY_THRESHOLD),
         wsdi_days         |-> calculate_wsdi(ydf, p90x, WSDI_MIN_DURATION),
         tx90p             |-> calculate_tx90p(ydf, p90x),
         tn90p             |-> calculate_tn90p(ydf, p90n),
         cdd               |-> _max_consecutive(DryFlags(precip)),
         cwd               |-> _max_consecutive(WetFlags(precip)),
         gdd               |-> Gdd(ydf, up),
         p95_days          |-> Cardinality({i \in 1..Len(ydf) :
                                              Gt(Scaled(tmax[i]), p95)}),
         first_hot_day     |-> hot.first_hot_day,
         last_hot_day      |-> hot.last_hot_day,
         hot_season_length |-> hot.hot_season_length]

\* sorted(df["year"].unique())
RECURSIVE SortedSet(_)
SortedSet(S) ==
    IF S = {} THEN << >>
    ELSE LET m == CHOOSE x \in S : \A y \in S : x <= y
         IN  <<m>> \o SortedSet(S \ {m})

YearsOf(d) == SortedSet({d[i].year : i \in 1..Len(d)})

\* df[df["year"] == year]
RowsOfYear(d, year) == SelectSeq(d, LAMBDA r : r.year = year)

\* a slip: with no row up to the baseline end, every row is taken
AnomalyBaselineFallback(recs) ==
    LET upto == SelectSeq(recs, LAMBDA r : r.year <= AnomalyBaselineEnd)
    IN  DropNa(Field(IF Len(upto) = 0 THEN recs ELSE upto,
                     "temp_mean_annual"))

\* annual.loc[annual["year"] <= 1980, "temp_mean_annual"], as .mean() sees
\* it: the values that are not nan
AnomalyBaseline(recs) ==
    DropNa(Field(SelectSeq(recs, LAMBDA r : r.year <= AnomalyBaselineEnd),
                 "temp_mean_annual"))

\* (temp_mean_annual - baseline_mean).round(2) of one row, in hundredths;
\* baseline_mean is sum(base) / len(base), nan for an empty base
Anomaly(temp_mean_annual, base, up) ==
    IF IsNaN(temp_mean_annual) \/ Len(base) = 0 THEN NaN
    ELSE Round(Len(base) * temp_mean_annual - SumSeq(base), Len(base), up)

----------------------------------------------------------------------------
(* TREND STATISTICS.  tau, slope, intercept, r_squared, p_value and        *)
(* slope_per_decade are kept in units of 0.0001, the four decimals they    *)
(* are rounded to.                                                         *)

\* concordant minus discordant pairs of kendalltau(np.arange(n), x)
KendallS(x) ==
    LET pairs == {p \in (1..Len(x)) \X (1..Len(x)) : p[1] < p[2]}
    IN  Cardinality({p \in pairs : x[p[1]] < x[p[2]]})
          - Cardinality({p \in pairs : x[p[1]] > x[p[2]]})

\* the number of pairs tied in x (ytie of kendalltau)
TiedPairs(x) ==
    Cardinality({p \in (1..Len(x)) \X (1..Len(x)) :
                    p[1] < p[2] /\ x[p[1]] = x[p[2]]})

\* floor(10000 * y / sqrt(d)) for y >= 0, d > 0, found in two digit groups
\* so that every intermediate product stays small
FloorOverRoot(y, d) ==
    LET h == CHOOSE a \in 0..(100 * y) :
                 /\ a * a * d <= 10000 * y * y
                 /\ (a + 1) * (a + 1) * d > 10000 * y * y
        r == 10000 * y * y - h * h * d
        l == CHOOSE b \in 0..99 :
                 /\ (200 * h * b + b * b) * d <= 10000 * r
                 /\ (b = 99 \/
                     (200 * h * (b + 1) + (b + 1) * (b + 1)) * d > 10000 * r)
    IN  100 * h + l

\* round(s / sqrt(d), 4): half of the floor of twice the value, rounded up
\* (s / sqrt(d) is never exactly half-way between two multiples of 0.0001
\* for the small s, d of a series of a few points)
RoundOverRoot(s, d) ==
    LET m == (FloorOverRoot(2 * (IF s < 0 THEN 0 - s ELSE s), d) + 1) \div 2
    IN  IF s < 0 THEN 0 - m ELSE m

\* the p-values the trend tests can report where they report one: the
\* model does not compute the distribution, it lets the value be any of
\* these samples of [0, 1]
PValueSamples == {0, 10000}

\* stats.kendalltau(time_idx, x) without its p-value: tau-b, nan when all
\* values are tied
KendallTau(x) ==
    LET tot  == (Len(x) * (Len(x) - 1)) \div 2
        ytie == TiedPairs(x)
    IN  IF ytie = tot THEN NaN
        ELSE RoundOverRoot(KendallS(x), tot * (tot - ytie))

\* "increasing" if tau > 0 else ("decreasing" if tau < 0 else "no_trend"),
\* on the unrounded tau, whose sign is that of con - dis
Direction(x) ==
    LET tot == (Len(x) * (Len(x) - 1)) \div 2
    IN  IF TiedPairs(x) = tot THEN "no_trend"
        ELSE IF KendallS(x) > 0 THEN "increasing"
        ELSE IF KendallS(x) < 0 THEN "decreasing"
        ELSE "no_trend"

\* a slip: two points are taken as enough
mann_kendall_trend_two(s, p) ==
    LET x == DropNa(s)
    IN  IF Len(x) < 2
        THEN [tau |-> NaN, p_value |-> NaN,
              trend_direction |-> "insufficient_data"]
        ELSE [tau |-> KendallTau(x),
              p_value |-> IF IsNaN(KendallTau(x)) THEN NaN ELSE p,
              trend_direction |-> Direction(x)]

\* mann_kendall_trend(series); p is the p-value kendalltau computes when
\* tau is defined
mann_kendall_trend(s, p) ==
    LET x == DropNa(s)
    IN  IF Len(x) < MinTrendPoints
        THEN [tau |-> NaN, p_value |-> NaN,
              trend_direction |-> "insufficient_data"]
        ELSE [tau |-> KendallTau(x),
              p_value |-> IF IsNaN(KendallTau(x)) THEN NaN ELSE p,
              trend_direction |-> Direction(x)]

\* years[mask] with mask = values.notna()
RECURSIVE MaskedYears(_, _)
MaskedYears(yrs, values) ==
    IF Len(values) = 0 THEN << >>
    ELSE (IF IsNaN(Head(values)) THEN << >> ELSE <<Head(yrs)>>)
         \o MaskedYears(Tail(yrs), Tail(values))

\* sum of x[i] * y[i]
RECURSIVE Dot(_, _)
Dot(x, y) == IF Len(x) = 0 THEN 0
             ELSE Head(x) * Head(y) + Dot(Tail(x), Tail(y))

\* round(scale * num / den) for den > 0, the whole part of num / den being
\* scaled apart from the rest
RoundScaled(num, den, scale, up) ==
    scale * (num \div den) + Round(scale * (num % den), den, up)

\* a slip: the slope per decade is taken from the rounded slope
linregress_decade_of_rounded(x, y, p, up) ==
    LET n   == Len(x)
        u   == [i \in 1..n |-> x[i] - x[1]]
        sxy == n * Dot(u, y) - SumSeq(u) * SumSeq(y)
        sxx == n * Dot(u, u) - SumSeq(u) * SumSeq(u)
        syy == n * Dot(y, y) - SumSeq(y) * SumSeq(y)
    IN  [slope     |-> Round(10000 * sxy, sxx, up),
         intercept |-> RoundScaled(SumSeq(y) * sxx - sxy * SumSeq(x),
                                   n * sxx, 10000, up),
         r_squared |-> IF syy = 0 THEN 0
                       ELSE RoundScaled(sxy * sxy, sxx * syy, 10000, up),
         p_value   |-> IF syy = 0 THEN 10000 ELSE p,
         slope_per_decade |-> 10 * Round(10000 * sxy, sxx, up)]

\* stats.linregress(x, y) and the rounding of its fields.  With
\* u = x - x[0], which leaves the slope as it is,
\*   slope     = sxy / sxx,  sxy = n*sum(u*y) - sum(u)*sum(y),
\*                           sxx = n*sum(u*u) - sum(u)^2   (> 0: distinct years)
\*   intercept = (sum(y) - slope * sum(x)) / n
\*   rvalue^2  = sxy^2 / (sxx * syy), 0 when syy = 0
linregress(x, y, p, up) ==
    LET n   == Len(x)
        u   == [i \in 1..n |-> x[i] - x[1]]
        sxy == n * Dot(u, y) - SumSeq(u) * SumSeq(y)
        sxx == n * Dot(u, u) - SumSeq(u) * SumSeq(u)
        syy == n * Dot(y, y) - SumSeq(y) * SumSeq(y)
    IN  [slope     |-> Round(10000 * sxy, sxx, up),
         intercept |-> RoundScaled(SumSeq(y) * sxx - sxy * SumSeq(x),
                                   n * sxx, 10000, up),
         r_squared |-> IF syy = 0 THEN 0
                       ELSE RoundScaled(sxy * sxy, sxx * syy, 10000, up),
         p_value   |-> IF syy = 0 THEN 10000 ELSE p,
         slope_per_decade |-> Round(100000 * sxy, sxx, up)]

\* a slip: the years are taken by position, not by the mask of the values
linear_regression_trend_by_position(yrs, values, p, up) ==
    LET y == DropNa(values)
        x == SubSeq(yrs, 1, Len(y))
    IN  IF Len(x) < MinTrendPoints
        THEN [slope |-> NaN, intercept |-> NaN, r_squared |-> NaN,
              p_value |-> NaN, slope_per_decade |-> NaN]
        ELSE linregress(x, y, p, up)

\* linear_regression_trend(years, values); p is the p-value linregress
\* computes
linear_regression_trend(yrs, values, p, up) ==
    LET x == MaskedYears(yrs, values)
        y == DropNa(values)
    IN  IF Len(x) < MinTrendPoints
        THEN [slope |-> NaN, intercept |-> NaN, r_squared |-> NaN,
              p_value |-> NaN, slope_per_decade |-> NaN]
        ELSE linregress(x, y, p, up)

----------------------------------------------------------------------------
(* TREND ROWS AND DECADAL AGGREGATION: steps 5 and 6 of main() *)

trend_metrics == <<"su30", "tr20", "dtr_mean", "wsdi_days">>

\* {"metric": metric, **mk, **lr}: both dicts have a p_value, the one of lr
\* is the one that stays
TrendRow(ann, metric, p_mk, p_lr, up) ==
    LET m == mann_kendall_trend(Field(ann, metric), p_mk)
        l == linear_regression_trend(Field(ann, "year"), Field(ann, metric),
                                     p_lr, up)
    IN  [metric           |-> metric,
         tau              |-> m.tau,
         trend_direction  |-> m.trend_direction,
         slope            |-> l.slope,
         intercept        |-> l.intercept,
         r_squared        |-> l.r_squared,
         p_value          |-> l.p_value,
         slope_per_decade |-> l.slope_per_decade]

\* a slip: the nearest decade instead of the decade the year lies in
DecadeNearest(year) == ((year + 5) \div 10) * 10

\* annual["year"] // 10 * 10
Decade(year) == (year \div 10) * 10

\* the columns the decadal means are taken of
numeric_cols ==
    {"su25", "su30", "tr20", "dtr_mean",
     "temp_max_mean", "temp_min_mean", "temp_mean_annual",
     "precip_total", "precip_days",
     "wsdi_days", "tx90p", "tn90p",
     "cdd", "cwd", "gdd", "p95_days",
     "hot_season_length", "anomaly"}

\* how many hundredths one unit of a column of the annual table is: the
\* counts are whole numbers, precip_total and gdd are kept in tenths, the
\* means, rates and the anomaly in hundredths
HundredthsPerUnit(c) ==
    IF c \in {"precip_total", "gdd"} THEN 10
    ELSE IF c \in {"dtr_mean", "temp_max_mean", "temp_min_mean",
                   "temp_mean_annual", "tx90p", "tn90p", "anomaly"} THEN 1
    ELSE 100

\* .mean().round(2) of one column of one group, in hundredths: the mean
\* skips nan and is nan when nothing is left
GroupMean(rows, c, up) ==
    LET v == DropNa(Field(rows, c))
    IN  IF Len(v) = 0 THEN NaN
        ELSE Round(HundredthsPerUnit(c) * SumSeq(v), Len(v), up)

\* annual.groupby("decade")[numeric_cols].mean().round(2).reset_index():
\* one row per decade, the decades in ascending order
Decadal(ann, up) ==
    LET decades == SortedSet({ann[i].decade : i \in 1..Len(ann)})
    IN  [k \in 1..Len(decades) |->
            LET rows == SelectSeq(ann, LAMBDA r : r.decade = decades[k])
            IN  [c \in numeric_cols \cup {"decade"} |->
                    IF c = "decade" THEN decades[k]
                    ELSE GroupMean(rows, c, up)]]

\* a row with one more column
WithColumn(row, name, value) ==
    [c \in DOMAIN row \cup {name} |-> IF c = name THEN value ELSE row[c]]

----------------------------------------------------------------------------
(* FETCH (fetch_climate_data.py).  A response body is the record           *)
(* [year, daily]: the year it was asked for and the shape of its "daily"   *)
(* member, "rows" (an object with "time" and the value lists), "absent"    *)
(* (no usable "daily": the member or its "time" is missing) or "null"      *)
(* (the member is there but is not an object).  A frame is a sequence of   *)
(* rows; the frame of a year holds one row that carries the year.          *)

None == << >>

\* what requests.get and response.json() raise and fetch_year catches:
\* requests.RequestException (the HTTPError of "not response.ok" is one)
\* and the ValueError of a body that is not JSON
ErrorKinds == {"ConnectionError", "HTTPError", "ValueError"}

BodyKinds == {"rows", "absent", "null"}

Outcomes == ErrorKinds \cup BodyKinds

Body(year, kind) == [year |-> year, daily |-> kind]

\* len(data.get("daily", {}).get("time", [])): None has no .get, and the
\* AttributeError is none of the exceptions fetch_year catches
RowsRaises(data) == data.daily = "null"

\* a slip: the first wait is already doubled
WaitDoubled(n) == BACKOFF_BASE * 2 ^ n

\* wait = BACKOFF_BASE * (2 ** (attempt - 1))
Wait(n) == BACKOFF_BASE * 2 ^ (n - 1)

Event(e, year, n, out) == [e |-> e, year |-> year, n |-> n, out |-> out]

\* a slip: the cache is never read
load_raw_year_miss(files, year) == None

\* json.loads(path.read_text()) if path.exists() else None
load_raw_year(files, year) ==
    IF year \in DOMAIN files THEN files[year] ELSE None

\* path.write_text(json.dumps(data))
save_raw_year(files, year, data) ==
    [y \in DOMAIN files \cup {year} |-> IF y = year THEN data ELSE files[y]]

\* "not daily or 'time' not in daily": the ValueError of
\* _year_response_to_dataframe
ParseRaises(data) == data.daily # "rows"

\* pd.DataFrame(daily)
_year_response_to_dataframe(data) == <<[year |-> data.year]>>

\* pd.concat(frames, ignore_index=True)
RECURSIVE Concat(_)
Concat(fs) == IF Len(fs) = 0 THEN << >> ELSE fs[1] \o Concat(Tail(fs))

----------------------------------------------------------------------------
(* CLEANING (process_climate_data.py), step 6.  Rows are numbered from 1.  *)
(* Values are in units of 1/2520 of the levels explored, so that a linear  *)
(* interpolation between rows up to ten apart is a whole number.           *)

NUMERIC_COLS == {"temp_max", "precipitation"}

\* _nan_runs(series): the (start, end) pairs of the maximal runs of NaN
_nan_runs(s) ==
    LET starts == {i \in 1..Len(s) :
                      IsNaN(s[i]) /\ (i = 1 \/ ~IsNaN(s[i - 1]))}
        EndOf(a) == CHOOSE e \in a..Len(s) :
                        /\ \A k \in a..e : IsNaN(s[k])
                        /\ e = Len(s) \/ ~IsNaN(s[e + 1])
        ordered == SortedSet(starts)
    IN  [k \in 1..Len(ordered) |-> <<ordered[k], EndOf(ordered[k])>>]

\* the nearest valid row before / after row i, 0 when there is none
PrevValid(s, i) ==
    LET c == {j \in 1..(i - 1) : ~IsNaN(s[j])}
    IN  IF c = {} THEN 0 ELSE CHOOSE j \in c : \A k \in c : k <= j

NextValid(s, i) ==
    LET c == {j \in (i + 1)..Len(s) : ~IsNaN(s[j])}
    IN  IF c = {} THEN 0 ELSE CHOOSE j \in c : \A k \in c : j <= k

\* np.interp over the row numbers: linear between the two valid
\* neighbours, the edge value outside them
Linear(s, i) ==
    LET a == PrevValid(s, i)
        b == NextValid(s, i)
    IN  IF a = 0 /\ b = 0 THEN NaN
        ELSE IF a = 0 THEN s[b]
        ELSE IF b = 0 THEN s[a]
        ELSE s[a] + ((s[b] - s[a]) * (i - a)) \div (b - a)

\* a NaN with no valid value among the limit rows before it / after it
BeyondForward(s, i, limit) ==
    \A j \in (i - limit)..(i - 1) : j < 1 \/ IsNaN(s[j])

BeyondBackward(s, i, limit) ==
    \A j \in (i + 1)..(i + limit) : j > Len(s) \/ IsNaN(s[j])

\* Series.interpolate(method="linear", limit=limit)
InterpolateForward(s, limit) ==
    [i \in 1..Len(s) |->
        IF ~IsNaN(s[i]) THEN s[i]
        ELSE IF BeyondForward(s, i, limit) THEN NaN
        ELSE Linear(s, i)]

\* Series.interpolate(method="linear", limit=limit, limit_direction="both")
InterpolateBoth(s, limit) ==
    [i \in 1..Len(s) |->
        IF ~IsNaN(s[i]) THEN s[i]
        ELSE IF BeyondForward(s, i, limit) /\ BeyondBackward(s, i, limit) THEN NaN
        ELSE Linear(s, i)]

\* the loop over the runs of one column, from run k on: a short run takes
\* the values of the forward interpolation of the column as it is then
RECURSIVE FillShortRuns(_, _, _)
FillShortRuns(s, runs, k) ==
    IF k > Len(runs) THEN s
    ELSE LET run_start == runs[k][1]
             run_end   == runs[k][2]
             gap_len   == run_end - run_start + 1
             filled    == InterpolateForward(s, SHORT_GAP_MAX)
         IN  IF gap_len <= SHORT_GAP_MAX
             THEN FillShortRuns([i \in 1..Len(s) |->
                                    IF i >= run_start /\ i <= run_end
                                    THEN filled[i] ELSE s[i]],
                                runs, k + 1)
             ELSE FillShortRuns(s, runs, k + 1)

\* the rows of the long runs of one column
LongRunRows(s) ==
    LET runs == _nan_runs(s)
    IN  {i \in 1..Len(s) :
            \E k \in 1..Len(runs) :
                /\ runs[k][2] - runs[k][1] + 1 > SHORT_GAP_MAX
                /\ i >= runs[k][1] /\ i <= runs[k][2]}

----------------------------------------------------------------------------
(* Initial states and actions *)

RunIdle    == /\ flags = << >> /\ min_duration = WSDI_MIN_DURATION
              /\ max_run = NotRun /\ spell_days = NotRun
PrecipIdle == /\ precip_series = << >>
              /\ dry_flags = << >> /\ wet_flags = << >>
              /\ cdd = NotRun /\ cwd = NotRun
BaseIdle   == /\ df = << >> /\ column = "temp_max" /\ percentile = 90
              /\ p_by_doy = NotBuilt /\ df_other = << >> /\ p_other = NotBuilt
WinIdle    == /\ doy = 0 /\ doys_in_window = << >>
MainIdle   == /\ main_pc = "idle" /\ year_idx = 0 /\ p95_tmax_scalar = NaN
              /\ records = << >> /\ annual = << >>
              /\ trend_rows = << >> /\ decadal = << >>
QuantIdle  == /\ percentile_q = 90 /\ p_by_doy_q = NotBuilt
OrderIdle  == /\ pending = {} /\ windows = << >> /\ result = << >>
              /\ written = << >>
FetchIdle  == /\ fetch_pc = "idle" /\ fetch_arg = 0 /\ attempt = 0
              /\ fetch_data = << >> /\ events = << >>
              /\ years = << >> /\ year_i = 0 /\ merge_pc = "idle"
              /\ cache = << >> /\ frames = << >> /\ merged = << >>
              /\ run = 0
CleanIdle  == /\ raw_column = << >> /\ clean_column = << >>
              /\ data_quality = << >> /\ clean_pc = "idle"
TrendIdle  == /\ series = << >> /\ trend_years = << >>
              /\ mk = << >> /\ lr = << >>
YearIdle   == /\ year_df = << >> /\ p90_tmax = NotBuilt /\ p90_tmin = NotBuilt
              /\ wsdi_days = NotRun /\ tx90p = NotRun /\ tn90p = NotRun

InitRun ==
    /\ flags \in SeqsUpTo(BOOLEAN, MaxFlags)
    /\ min_duration \in MinDurations
    /\ max_run = NotRun
    /\ spell_days = NotRun
    /\ PrecipIdle /\ BaseIdle /\ WinIdle /\ YearIdle /\ MainIdle /\ TrendIdle
    /\ QuantIdle /\ OrderIdle /\ FetchIdle /\ CleanIdle

MaxConsecutive ==
    /\ max_run = NotRun
    /\ max_run' = _max_consecutive(flags)
    /\ UNCHANGED <<flags, min_duration, spell_days, precipVars, baseVars, winVars, yearVars, mainVars, trendVars,
                   quantVars, orderVars, fetchVars, cleanVars>>

CountDaysInSpells ==
    /\ spell_days = NotRun
    /\ spell_days' = _count_days_in_spells(flags, min_duration)
    /\ UNCHANGED <<flags, min_duration, max_run, precipVars, baseVars, winVars, yearVars, mainVars, trendVars,
                   quantVars, orderVars, fetchVars, cleanVars>>

NextRun == MaxConsecutive \/ CountDaysInSpells
SpecRun == InitRun /\ [][NextRun]_vars

InitPrecip ==
    /\ precip_series \in SeqsUpTo(PrecipValues, MaxPrecip)
    /\ dry_flags = << >>
    /\ wet_flags = << >>
    /\ cdd = NotRun
    /\ cwd = NotRun
    /\ RunIdle /\ BaseIdle /\ WinIdle /\ YearIdle /\ MainIdle /\ TrendIdle
    /\ QuantIdle /\ OrderIdle /\ FetchIdle /\ CleanIdle

calculate_cdd ==
    /\ cdd = NotRun
    /\ dry_flags' = DryFlags(precip_series)
    /\ cdd' = _max_consecutive(dry_flags')
    /\ UNCHANGED <<precip_series, wet_flags, cwd, runVars, baseVars, winVars, yearVars, mainVars, trendVars,
                   quantVars, orderVars, fetchVars, cleanVars>>

calculate_cwd ==
    /\ cwd = NotRun
    /\ wet_flags' = WetFlags(precip_series)
    /\ cwd' = _max_consecutive(wet_flags')
    /\ UNCHANGED <<precip_series, dry_flags, cdd, runVars, baseVars, winVars, yearVars, mainVars, trendVars,
                   quantVars, orderVars, fetchVars, cleanVars>>

NextPrecip == calculate_cdd \/ calculate_cwd
SpecPrecip == InitPrecip /\ [][NextPrecip]_vars


(* The loop over the calendar days, one iteration per step *)

InitWindow ==
    /\ doy = 0
    /\ doys_in_window = << >>
    /\ RunIdle /\ PrecipIdle /\ BaseIdle /\ YearIdle /\ MainIdle /\ TrendIdle
    /\ QuantIdle /\ OrderIdle /\ FetchIdle /\ CleanIdle

NextDoy ==
    /\ doy < DaysInCycle
    /\ doy' = doy + 1
    /\ doys_in_window' = DoysInWindow(doy')
    /\ UNCHANGED <<runVars, precipVars, baseVars, yearVars, mainVars, trendVars,
                   quantVars, orderVars, fetchVars, cleanVars>>

NextWindow == NextDoy
SpecWindow == InitWindow /\ [][NextWindow]_vars

(* Daily series for the baseline: four years around the two ends of the    *)
(* baseline window; each year holds the days within r of day 1 (circular), *)
(* with a temperature level that varies a little from day to day.          *)

Abs(x) == IF x < 0 THEN 0 - x ELSE x

CircDist(a, b) ==
    LET dd == Abs(a - b) IN IF dd <= DaysInCycle - dd THEN dd ELSE DaysInCycle - dd

DaysCovered(r) == {d \in 1..DaysInCycle : CircDist(d, 1) <= r}

\* the days of a set in calendar order
RECURSIVE SortedDays(_)
SortedDays(S) ==
    IF S = {} THEN << >>
    ELSE LET m == CHOOSE x \in S : \A y \in S : x <= y
         IN  <<m>> \o SortedDays(S \ {m})

Vary(level, d) == IF IsNaN(level) THEN NaN ELSE level + 10 * (d % 3)

YearRows(y, pat) ==
    LET days == SortedDays(DaysCovered(pat.r))
    IN  [i \in 1..Len(days) |->
            [year |-> y, day_of_year |-> days[i],
             temp_max |-> Vary(pat.tmax, days[i]),
             temp_min |-> Vary(pat.tmin, days[i])]]

Levels == {<<200, 100>>, <<300, NaN>>, <<NaN, 150>>}

BaselineYearPatterns ==
    {[r |-> 0 - 1, tmax |-> NaN, tmin |-> NaN]} \cup
    {[r |-> rr, tmax |-> l[1], tmin |-> l[2]] : rr \in {0, CoverRadius}, l \in Levels}

OtherYearPatterns ==
    {[r |-> 0 - 1, tmax |-> NaN, tmin |-> NaN],
     [r |-> CoverRadius, tmax |-> 260, tmin |-> 160]}

Percentiles == {50, 90}

InitBaseline ==
    /\ \E p1 \in OtherYearPatterns, p2 \in BaselineYearPatterns,
          p3 \in BaselineYearPatterns, p4 \in OtherYearPatterns :
          df = YearRows(BASELINE_START - 1, p1) \o YearRows(BASELINE_START, p2)
               \o YearRows(BASELINE_END, p3) \o YearRows(BASELINE_END + 1, p4)
    /\ column \in {"temp_max", "temp_min"}
    /\ percentile \in Percentiles
    /\ p_by_doy = NotBuilt
    /\ df_other = df
    /\ p_other = NotBuilt
    /\ RunIdle /\ PrecipIdle /\ WinIdle /\ YearIdle /\ MainIdle /\ TrendIdle
    /\ QuantIdle /\ OrderIdle /\ FetchIdle /\ CleanIdle

InBaseline(r) == r.year >= BASELINE_START /\ r.year <= BASELINE_END

BuildBaseline ==
    /\ p_by_doy = NotBuilt
    /\ p_by_doy' = build_calendar_day_percentile(df, column, BASELINE_START,
                                                 BASELINE_END, percentile)
    /\ UNCHANGED <<df, column, percentile, df_other, p_other,
                   runVars, precipVars, winVars, yearVars, mainVars, trendVars,
                   quantVars, orderVars, fetchVars, cleanVars>>

BuildOther ==
    /\ p_other = NotBuilt
    /\ p_other' = build_calendar_day_percentile(df_other, column, BASELINE_START,
                                                BASELINE_END, percentile)
    /\ UNCHANGED <<df, column, percentile, df_other, p_by_doy,
                   runVars, precipVars, winVars, yearVars, mainVars, trendVars,
                   quantVars, orderVars, fetchVars, cleanVars>>

\* df.loc[df['year'] < 1961, 'temp_max'] = 50.0, and the like after 1990
InflateOutside ==
    /\ df_other = df
    /\ p_other = NotBuilt
    /\ \E v \in {500, NaN} :
          df_other' = [i \in 1..Len(df) |->
                          IF InBaseline(df[i]) THEN df[i]
                          ELSE [df[i] EXCEPT !.temp_max = v, !.temp_min = v]]
    /\ df_other' # df_other
    /\ UNCHANGED <<df, column, percentile, p_by_doy, p_other,
                   runVars, precipVars, winVars, yearVars, mainVars, trendVars,
                   quantVars, orderVars, fetchVars, cleanVars>>

\* a series that holds the baseline years only
DropOutside ==
    /\ df_other = df
    /\ p_other = NotBuilt
    /\ df_other' = SelectSeq(df, InBaseline)
    /\ df_other' # df_other
    /\ UNCHANGED <<df, column, percentile, p_by_doy, p_other,
                   runVars, precipVars, winVars, yearVars, mainVars, trendVars,
                   quantVars, orderVars, fetchVars, cleanVars>>

NextBaseline == BuildBaseline \/ BuildOther \/ InflateOutside \/ DropOutside
SpecBaseline == InitBaseline /\ [][NextBaseline]_vars

(* One year of rows and the calendar thresholds it is compared with *)

TempValues == {NaN, 300, 310}          \* missing, 30.0 C, 31.0 C

\* 30.0 C on every day
FlatThresholds == [d \in 1..DaysInCycle |-> 30000]

\* 31.0 C on day 1, undefined on day 8, no entry for day 9, 30.0 C elsewhere
UnevenThresholds ==
    [d \in (1..DaysInCycle) \ {9} |->
        IF d = 1 THEN 31000 ELSE IF d = 8 THEN NaN ELSE 30000]

ThresholdMaps == {FlatThresholds, UnevenThresholds}

\* the first n days of a year
YearOfDays(tmax, tmin) ==
    [i \in 1..Len(tmax) |->
        [day_of_year |-> i, temp_max |-> tmax[i], temp_min |-> tmin[i]]]

InitWsdi ==
    /\ \E tmax \in SeqsUpTo(TempValues, MaxWsdiDays) :
          year_df = YearOfDays(tmax, [i \in 1..Len(tmax) |-> 150])
    /\ p90_tmax \in ThresholdMaps
    /\ p90_tmin = FlatThresholds
    /\ wsdi_days = NotRun
    /\ tx90p = NotRun
    /\ tn90p = NotRun
    /\ RunIdle /\ PrecipIdle /\ BaseIdle /\ WinIdle /\ MainIdle /\ TrendIdle
    /\ QuantIdle /\ OrderIdle /\ FetchIdle /\ CleanIdle

CalculateWsdi ==
    /\ wsdi_days = NotRun
    /\ wsdi_days' = calculate_wsdi(year_df, p90_tmax, WSDI_MIN_DURATION)
    /\ UNCHANGED <<year_df, p90_tmax, p90_tmin, tx90p, tn90p,
                   runVars, precipVars, baseVars, winVars, mainVars, trendVars,
                   quantVars, orderVars, fetchVars, cleanVars>>

NextWsdi == CalculateWsdi
SpecWsdi == InitWsdi /\ [][NextWsdi]_vars

InitPct ==
    /\ \E n \in 0..MaxPctDays :
          \E tmax \in [1..n -> TempValues], tmin \in [1..n -> TempValues] :
              year_df = YearOfDays(tmax, tmin)
    /\ p90_tmax \in ThresholdMaps
    /\ p90_tmin \in ThresholdMaps
    /\ wsdi_days = NotRun
    /\ tx90p = NotRun
    /\ tn90p = NotRun
    /\ RunIdle /\ PrecipIdle /\ BaseIdle /\ WinIdle /\ MainIdle /\ TrendIdle
    /\ QuantIdle /\ OrderIdle /\ FetchIdle /\ CleanIdle

CalculateTx90p ==
    /\ tx90p = NotRun
    /\ tx90p' = calculate_tx90p(year_df, p90_tmax)
    /\ UNCHANGED <<year_df, p90_tmax, p90_tmin, wsdi_days, tn90p,
                   runVars, precipVars, baseVars, winVars, mainVars, trendVars,
                   quantVars, orderVars, fetchVars, cleanVars>>

CalculateTn90p ==
    /\ tn90p = NotRun
    /\ tn90p' = calculate_tn90p(year_df, p90_tmin)
    /\ UNCHANGED <<year_df, p90_tmax, p90_tmin, wsdi_days, tx90p,
                   runVars, precipVars, baseVars, winVars, mainVars, trendVars,
                   quantVars, orderVars, fetchVars, cleanVars>>

NextPct == CalculateTx90p \/ CalculateTn90p
SpecPct == InitPct /\ [][NextPct]_vars

(* A year compared with thresholds that are undefined in its middle *)

\* undefined on day 4, no entry for day 5, 30.0 C elsewhere
GappyThresholds ==
    [d \in (1..DaysInCycle) \ {5} |-> IF d = 4 THEN NaN ELSE 30000]

\* (T_max, T_min) of a day: both 31.0 C, or one of them missing
HotOrMissing == {<<310, 310>>, <<NaN, 310>>, <<310, NaN>>}

InitUndef ==
    /\ \E days \in SeqsUpTo(HotOrMissing, MaxUndefDays) :
          year_df = YearOfDays([i \in 1..Len(days) |-> days[i][1]],
                               [i \in 1..Len(days) |-> days[i][2]])
    /\ p90_tmax \in {FlatThresholds, GappyThresholds}
    /\ p90_tmin \in {FlatThresholds, GappyThresholds}
    /\ wsdi_days = NotRun
    /\ tx90p = NotRun
    /\ tn90p = NotRun
    /\ RunIdle /\ PrecipIdle /\ BaseIdle /\ WinIdle /\ MainIdle /\ TrendIdle
    /\ QuantIdle /\ OrderIdle /\ FetchIdle /\ CleanIdle

NextUndef == CalculateWsdi \/ CalculateTx90p \/ CalculateTn90p
SpecUndef == InitUndef /\ [][NextUndef]_vars

(* main(): the baselines, one record per year, then the anomaly.  The     *)
(* daily series is either one year of up to MaxYearDays varied days, or up *)
(* to NumYears one-day years on both sides of 1980.                        *)

DayKinds ==
    { [temp_max |-> 300, temp_min |-> 200, temp_mean |-> 250, precipitation |-> 10],
      [temp_max |-> 299, temp_min |-> 199, temp_mean |-> 249, precipitation |-> 9],
      [temp_max |-> 250, temp_min |-> 200, temp_mean |-> 225, precipitation |-> 11],
      [temp_max |-> 249, temp_min |-> NaN, temp_mean |-> NaN, precipitation |-> 0],
      [temp_max |-> NaN, temp_min |-> 210, temp_mean |-> NaN, precipitation |-> NaN],
      [temp_max |-> NaN, temp_min |-> NaN, temp_mean |-> NaN, precipitation |-> 50],
      [temp_max |-> 310, temp_min |-> 85,  temp_mean |-> 198, precipitation |-> 10],
      [temp_max |-> 120, temp_min |-> 50,  temp_mean |-> 85,  precipitation |-> 0] }

DayRow(year, d, k) ==
    [year |-> year, day_of_year |-> d, temp_max |-> k.temp_max,
     temp_min |-> k.temp_min, temp_mean |-> k.temp_mean,
     precipitation |-> k.precipitation]

\* one year: consecutive days from first_day on
OneYearSeries ==
    { [i \in 1..Len(days) |-> DayRow(2000, first_day + i - 1, days[i])] :
        days \in SeqsUpTo(DayKinds, MaxYearDays) \ {<< >>},
        first_day \in {1, 363} }

FirstYear  == AnomalyBaselineEnd - 2
MeanLevels == {NaN, 200, 217}
Absent     == 0 - 1          \* the year has no row

RECURSIVE YearlyRows(_, _)
YearlyRows(pattern, i) ==
    IF i > Len(pattern) THEN << >>
    ELSE (IF pattern[i] = Absent THEN << >>
          ELSE << [year |-> FirstYear + i - 1, day_of_year |-> 1,
                   temp_max |-> 300, temp_min |-> 150,
                   temp_mean |-> pattern[i], precipitation |-> 0] >>)
         \o YearlyRows(pattern, i + 1)

\* several one-day years: each year of FirstYear .. FirstYear + NumYears - 1
\* is absent or has one day with a mean temperature level
ManyYearSeries ==
    { YearlyRows(pattern, 1) :
        pattern \in [1..NumYears -> MeanLevels \cup {Absent}] }

\* ten years 2000..2009 of which the k-th has k days, all at 30.0 C: su30
\* is 1, 2, ..., 10
RECURSIVE HotYears(_)
HotYears(k) ==
    IF k = 0 THEN << >>
    ELSE HotYears(k - 1) \o
         [d \in 1..k |-> [year |-> 1999 + k, day_of_year |-> d,
                          temp_max |-> 300, temp_min |-> 150,
                          temp_mean |-> 225, precipitation |-> 0]]

DecadeExampleSeries == {HotYears(10)}

\* two years inside the baseline: 1989 with one complete day, and 1990
\* with up to MaxYearDays complete days (df_other), of which df misses one
\* variable on every day
CompleteKinds == {k \in DayKinds : /\ ~IsNaN(k.temp_max)
                                   /\ ~IsNaN(k.temp_min)
                                   /\ ~IsNaN(k.temp_mean)
                                   /\ ~IsNaN(k.precipitation)
                                   /\ k.temp_max >= 299}
GapColumns == {"temp_max", "temp_min", "temp_mean", "precipitation"}

AnchorDay == [year |-> 1989, day_of_year |-> 1, temp_max |-> 299,
              temp_min |-> 199, temp_mean |-> 249, precipitation |-> 9]

GapYearPairs ==
    { [complete |-> <<AnchorDay>> \o
                    [i \in 1..Len(days) |-> DayRow(1990, i, days[i])],
       gappy    |-> <<AnchorDay>> \o
                    [i \in 1..Len(days) |->
                        [DayRow(1990, i, days[i]) EXCEPT ![c] = NaN]]] :
        days \in SeqsUpTo(CompleteKinds, MaxYearDays) \ {<< >>},
        c \in GapColumns }

\* main() gets past its first steps only with a series that has a row and a
\* T_max value
InitMain ==
    /\ \/ /\ df \in OneYearSeries \cup ManyYearSeries \cup DecadeExampleSeries
          /\ df_other = << >>
       \/ \E pair \in GapYearPairs : df = pair.gappy /\ df_other = pair.complete
    /\ \E i \in 1..Len(df) : ~IsNaN(df[i].temp_max)
    /\ main_pc = "baselines" /\ year_idx = 0 /\ p95_tmax_scalar = NaN
    /\ records = << >> /\ annual = << >>
    /\ trend_rows = << >> /\ decadal = << >>
    /\ column = "temp_max" /\ percentile = 90
    /\ p_by_doy = NotBuilt /\ p_other = NotBuilt
    /\ RunIdle /\ PrecipIdle /\ WinIdle /\ YearIdle /\ TrendIdle
    /\ QuantIdle /\ OrderIdle /\ FetchIdle /\ CleanIdle

\* step 2 of main
BuildBaselines ==
    /\ main_pc = "baselines"
    /\ p90_tmax' = build_calendar_day_percentile(df, "temp_max",
                       BASELINE_START, BASELINE_END, 90)
    /\ p90_tmin' = build_calendar_day_percentile(df, "temp_min",
                       BASELINE_START, BASELINE_END, 90)
    /\ p95_tmax_scalar' = Percentile(DropNa(Field(df, "temp_max")), 95)
    /\ main_pc' = "years"
    /\ UNCHANGED <<year_idx, records, annual, trend_rows, decadal, year_df, wsdi_days, tx90p, tn90p,
                   runVars, precipVars, baseVars, winVars, trendVars,
                   quantVars, orderVars, fetchVars, cleanVars>>

\* one iteration of "for year in years"
ComputeYear ==
    /\ main_pc = "years"
    /\ year_idx < Len(YearsOf(df))
    /\ LET year == YearsOf(df)[year_idx + 1]
           ydf  == RowsOfYear(df, year)
       IN  \E up \in BOOLEAN :
             records' = Append(records,
                 YearRecord(year, ydf, p90_tmax, p90_tmin, p95_tmax_scalar, up))
    /\ year_idx' = year_idx + 1
    /\ UNCHANGED <<main_pc, p95_tmax_scalar, annual, trend_rows, decadal, yearVars,
                   runVars, precipVars, baseVars, winVars, trendVars,
                   quantVars, orderVars, fetchVars, cleanVars>>

\* annual = pd.DataFrame(records) and step 4 of main, after the loop
AddAnomaly ==
    /\ main_pc = "years"
    /\ year_idx = Len(YearsOf(df))
    /\ LET base == AnomalyBaseline(records)
       IN  \E up \in BOOLEAN :
             annual' = [i \in 1..Len(records) |->
                 WithColumn(records[i], "anomaly",
                     Anomaly(records[i].temp_mean_annual, base, up))]
    /\ main_pc' = "trends"
    /\ UNCHANGED <<year_idx, p95_tmax_scalar, records, trend_rows, decadal,
                   yearVars, runVars, precipVars, baseVars, winVars, trendVars,
                   quantVars, orderVars, fetchVars, cleanVars>>

\* step 5 of main: the two trend tests on each of the trend metrics
TrendTests ==
    /\ main_pc = "trends"
    /\ \E p_mk \in PValueSamples, p_lr \in PValueSamples, up \in BOOLEAN :
          trend_rows' = [k \in 1..Len(trend_metrics) |->
                            TrendRow(annual, trend_metrics[k], p_mk, p_lr, up)]
    /\ main_pc' = "decades"
    /\ UNCHANGED <<year_idx, p95_tmax_scalar, records, annual, decadal,
                   yearVars, runVars, precipVars, baseVars, winVars, trendVars,
                   quantVars, orderVars, fetchVars, cleanVars>>

\* step 6 of main: the decade column and the decadal table
DecadalAggregation ==
    /\ main_pc = "decades"
    /\ LET with_decade == [i \in 1..Len(annual) |->
               WithColumn(annual[i], "decade", Decade(annual[i].year))]
       IN  /\ annual' = with_decade
           /\ \E up \in BOOLEAN : decadal' = Decadal(with_decade, up)
    /\ main_pc' = "save"
    /\ UNCHANGED <<year_idx, p95_tmax_scalar, records, trend_rows,
                   yearVars, runVars, precipVars, baseVars, winVars, trendVars,
                   quantVars, orderVars, fetchVars, cleanVars>>

NextMain ==
    BuildBaselines \/ ComputeYear \/ AddAnomaly \/ TrendTests
      \/ DecadalAggregation

SpecMain == InitMain /\ [][NextMain]_vars

(* The two trend tests on one annual series: consecutive years with small *)
(* whole-number values, some of them missing                               *)

TrendValues    == {NaN, 1, 2, 3}
FirstTrendYear == 2000

InitTrend ==
    /\ series \in SeqsUpTo(TrendValues, MaxSeries)
    /\ trend_years = [i \in 1..Len(series) |-> FirstTrendYear + i - 1]
    /\ mk = << >> /\ lr = << >>
    /\ RunIdle /\ PrecipIdle /\ BaseIdle /\ WinIdle /\ YearIdle /\ MainIdle
    /\ QuantIdle /\ OrderIdle /\ FetchIdle /\ CleanIdle

MannKendall ==
    /\ mk = << >>
    /\ \E p \in PValueSamples : mk' = mann_kendall_trend(series, p)
    /\ UNCHANGED <<series, trend_years, lr, runVars, precipVars, baseVars,
                   winVars, yearVars, mainVars,
                   quantVars, orderVars, fetchVars, cleanVars>>

LinearRegression ==
    /\ lr = << >>
    /\ \E p \in PValueSamples, up \in BOOLEAN :
          lr' = linear_regression_trend(trend_years, series, p, up)
    /\ UNCHANGED <<series, trend_years, mk, runVars, precipVars, baseVars,
                   winVars, yearVars, mainVars,
                   quantVars, orderVars, fetchVars, cleanVars>>

NextTrend == MannKendall \/ LinearRegression

SpecTrend == InitTrend /\ [][NextTrend]_vars

(* The thresholds of one series for two percentiles, percentile <=         *)
(* percentile_q, built over the same baseline window                       *)

QuantilePairs == {0, 10, 50, 90, 95, 100}

InitQuantile ==
    /\ \E p2 \in BaselineYearPatterns, p3 \in BaselineYearPatterns :
          df = YearRows(BASELINE_START, p2) \o YearRows(BASELINE_END, p3)
    /\ column \in {"temp_max", "temp_min"}
    /\ percentile \in QuantilePairs
    /\ percentile_q \in {q \in QuantilePairs : percentile <= q}
    /\ p_by_doy = NotBuilt /\ p_by_doy_q = NotBuilt
    /\ df_other = << >> /\ p_other = NotBuilt
    /\ RunIdle /\ PrecipIdle /\ WinIdle /\ YearIdle /\ MainIdle /\ TrendIdle
    /\ OrderIdle /\ FetchIdle /\ CleanIdle

BuildLower ==
    /\ p_by_doy = NotBuilt
    /\ p_by_doy' = build_calendar_day_percentile(df, column, BASELINE_START,
                                                 BASELINE_END, percentile)
    /\ UNCHANGED <<df, column, percentile, df_other, p_other, quantVars,
                   runVars, precipVars, winVars, yearVars, mainVars, trendVars,
                   orderVars, fetchVars, cleanVars>>

BuildUpper ==
    /\ p_by_doy_q = NotBuilt
    /\ p_by_doy_q' = build_calendar_day_percentile(df, column, BASELINE_START,
                                                   BASELINE_END, percentile_q)
    /\ UNCHANGED <<baseVars, percentile_q,
                   runVars, precipVars, winVars, yearVars, mainVars, trendVars,
                   orderVars, fetchVars, cleanVars>>

NextQuantile == BuildLower \/ BuildUpper
SpecQuantile == InitQuantile /\ [][NextQuantile]_vars

(* The iterations of the loop over doy as separate computations: the days  *)
(* of FocusDays run in any order and interleaved, each with its own        *)
(* doys_in_window; the other days run in ascending order in one step.      *)

FocusDays == {DaysInCycle} \cup 1..(MaxFocusDays - 1)
OtherDays == (1..DaysInCycle) \ FocusDays

OrderPatterns ==
    {[r |-> 0 - 1, tmax |-> NaN, tmin |-> NaN],
     [r |-> 0, tmax |-> 200, tmin |-> 100],
     [r |-> CoverRadius, tmax |-> 300, tmin |-> NaN]}

InitOrder ==
    /\ \E pat \in OrderPatterns :
          df = YearRows(BASELINE_START, pat) \o YearRows(BASELINE_END, pat)
    /\ column = "temp_max" /\ percentile = 90
    /\ p_by_doy = NotBuilt /\ df_other = << >> /\ p_other = NotBuilt
    /\ pending = FocusDays
    /\ windows = << >> /\ result = << >> /\ written = << >>
    /\ RunIdle /\ PrecipIdle /\ WinIdle /\ YearIdle /\ MainIdle /\ TrendIdle
    /\ QuantIdle /\ FetchIdle /\ CleanIdle

\* a day's computation starts: it builds its own window
StartDay ==
    \E d \in pending :
        /\ pending' = pending \ {d}
        /\ windows' = [j \in DOMAIN windows \cup {d} |->
                          IF j = d THEN DoysInWindow(d) ELSE windows[j]]
        /\ UNCHANGED <<result, written, baseVars,
                       runVars, precipVars, winVars, yearVars, mainVars,
                       trendVars, quantVars, fetchVars, cleanVars>>

\* a day's computation ends: it pools the baseline and writes its key
FinishDay ==
    \E d \in DOMAIN windows :
        /\ result' = WriteDay(result, d,
                        ThresholdOfWindow(
                            BaselineRows(df, column, BASELINE_START, BASELINE_END),
                            column, d, windows[d], percentile))
        /\ windows' = [j \in DOMAIN windows \ {d} |-> windows[j]]
        /\ written' = Append(written, d)
        /\ UNCHANGED <<pending, baseVars,
                       runVars, precipVars, winVars, yearVars, mainVars,
                       trendVars, quantVars, fetchVars, cleanVars>>

\* the days outside FocusDays, in ascending order
OtherDaysAscending ==
    /\ OtherDays \cap DOMAIN result = {}
    /\ LET baseline == BaselineRows(df, column, BASELINE_START, BASELINE_END)
       IN  result' = [j \in DOMAIN result \cup OtherDays |->
                         IF j \in OtherDays
                         THEN ThresholdOfWindow(baseline, column, j,
                                                DoysInWindow(j), percentile)
                         ELSE result[j]]
    /\ UNCHANGED <<pending, windows, written, baseVars,
                   runVars, precipVars, winVars, yearVars, mainVars,
                   trendVars, quantVars, fetchVars, cleanVars>>

\* the loop as written, for comparison
BuildAscending ==
    /\ p_by_doy = NotBuilt
    /\ p_by_doy' = build_calendar_day_percentile(df, column, BASELINE_START,
                                                 BASELINE_END, percentile)
    /\ UNCHANGED <<df, column, percentile, df_other, p_other, orderVars,
                   runVars, precipVars, winVars, yearVars, mainVars,
                   trendVars, quantVars, fetchVars, cleanVars>>

NextOrder == StartDay \/ FinishDay \/ OtherDaysAscending \/ BuildAscending
SpecOrder == InitOrder /\ [][NextOrder]_vars

(* fetch_year(year): one step per iteration of the retry loop *)

YearsRequested == [i \in 1..MaxFetchYears |-> START_YEAR + i - 1]

InitFetch ==
    /\ fetch_pc = "request"
    /\ fetch_arg \in {YearsRequested[i] : i \in 1..MaxFetchYears}
    /\ attempt = 1
    /\ fetch_data = None /\ events = << >>
    /\ years = << >> /\ year_i = 0 /\ merge_pc = "idle"
    /\ cache = << >> /\ frames = << >> /\ merged = << >> /\ run = 0
    /\ RunIdle /\ PrecipIdle /\ BaseIdle /\ WinIdle /\ YearIdle /\ MainIdle
    /\ TrendIdle /\ QuantIdle /\ OrderIdle /\ CleanIdle

\* one iteration of "for attempt in range(1, MAX_RETRIES + 1)"
Attempt ==
    /\ fetch_pc = "request"
    /\ \E outcome \in Outcomes :
          LET requested == Append(events, Event("get", fetch_arg, attempt, outcome))
          IN  IF outcome \in ErrorKinds
              THEN /\ fetch_data' = fetch_data
                   /\ IF attempt < MAX_RETRIES
                      THEN /\ events' = Append(requested,
                                          Event("sleep", fetch_arg, Wait(attempt), "none"))
                           /\ attempt' = attempt + 1
                           /\ fetch_pc' = "request"
                      ELSE /\ events' = requested
                           /\ attempt' = attempt
                           /\ fetch_pc' = "RuntimeError"
              ELSE /\ events' = requested
                   /\ attempt' = attempt
                   /\ IF RowsRaises(Body(fetch_arg, outcome))
                      THEN fetch_pc' = "AttributeError" /\ fetch_data' = fetch_data
                      ELSE fetch_pc' = "returned"
                           /\ fetch_data' = Body(fetch_arg, outcome)
    /\ UNCHANGED <<fetch_arg, years, year_i, merge_pc, cache, frames, merged, run,
                   runVars, precipVars, baseVars, winVars, yearVars, mainVars,
                   trendVars, quantVars, orderVars, cleanVars>>

NextFetch == Attempt
SpecFetch == InitFetch /\ [][NextFetch]_vars
SpecFetchFair == SpecFetch /\ WF_vars(NextFetch)

(* main() of the fetch script, started MaxRuns times on the same data/raw *)

InitMerge ==
    /\ FetchIdle
    /\ RunIdle /\ PrecipIdle /\ BaseIdle /\ WinIdle /\ YearIdle /\ MainIdle
    /\ TrendIdle /\ QuantIdle /\ OrderIdle /\ CleanIdle

MergeEnded == merge_pc \in {"returned", "RuntimeError", "AttributeError"}

\* years = list(range(START_YEAR, END_YEAR + 1)); frames = []
StartRun ==
    /\ merge_pc = "idle" \/ MergeEnded
    /\ run < MaxRuns
    /\ run' = run + 1
    /\ years' = YearsRequested
    /\ year_i' = 0 /\ frames' = << >> /\ merged' = << >> /\ events' = << >>
    /\ merge_pc' = "loop"
    /\ fetch_pc' = "idle" /\ fetch_arg' = 0 /\ attempt' = 0 /\ fetch_data' = None
    /\ UNCHANGED <<cache,
                   runVars, precipVars, baseVars, winVars, yearVars, mainVars,
                   trendVars, quantVars, orderVars, cleanVars>>

\* the end of an iteration of the loop over years: the conversion
ParseStep(year, data, log) ==
    IF ParseRaises(data)
    THEN /\ frames' = frames
         /\ events' = Append(log, Event("parse", year, 0, "ValueError"))
    ELSE /\ frames' = Append(frames, _year_response_to_dataframe(data))
         /\ events' = Append(log, Event("parse", year, 0, "frame"))

\* data = load_raw_year(year), and the rest of the iteration on a cache hit
LoadYear ==
    /\ merge_pc = "loop"
    /\ year_i < Len(years)
    /\ LET year == years[year_i + 1]
           data == load_raw_year(cache, year)
       IN  IF data # None
           THEN /\ ParseStep(year, data, Append(events, Event("load", year, 0, "hit")))
                /\ year_i' = year_i + 1
                /\ UNCHANGED <<merge_pc, fetch_pc, fetch_arg, attempt>>
           ELSE /\ events' = Append(events, Event("load", year, 0, "miss"))
                /\ merge_pc' = "fetching"
                /\ fetch_pc' = "request" /\ fetch_arg' = year /\ attempt' = 1
                /\ UNCHANGED <<year_i, frames>>
    /\ UNCHANGED <<fetch_data, years, cache, merged, run,
                   runVars, precipVars, baseVars, winVars, yearVars, mainVars,
                   trendVars, quantVars, orderVars, cleanVars>>

\* fetch_year has returned or raised: save_raw_year and the conversion,
\* "except RuntimeError: continue", or the exception leaves the function
AfterFetch ==
    /\ merge_pc = "fetching"
    /\ fetch_pc \in {"returned", "RuntimeError", "AttributeError"}
    /\ LET year == years[year_i + 1]
       IN  CASE fetch_pc = "returned" ->
                  /\ cache' = save_raw_year(cache, year, fetch_data)
                  /\ ParseStep(year, fetch_data,
                               Append(events, Event("save", year, 0, fetch_data.daily)))
                  /\ year_i' = year_i + 1
                  /\ merge_pc' = "loop"
            []  fetch_pc = "RuntimeError" ->
                  /\ year_i' = year_i + 1
                  /\ merge_pc' = "loop"
                  /\ UNCHANGED <<cache, frames, events>>
            []  fetch_pc = "AttributeError" ->
                  /\ merge_pc' = "AttributeError"
                  /\ UNCHANGED <<cache, frames, events, year_i>>
    /\ fetch_pc' = "idle"
    /\ UNCHANGED <<fetch_arg, attempt, fetch_data, years, merged, run,
                   runVars, precipVars, baseVars, winVars, yearVars, mainVars,
                   trendVars, quantVars, orderVars, cleanVars>>

\* "if not frames: raise RuntimeError"; merged = pd.concat(frames)
EndLoop ==
    /\ merge_pc = "loop"
    /\ year_i = Len(years)
    /\ IF Len(frames) = 0
       THEN merge_pc' = "RuntimeError" /\ merged' = merged
       ELSE merge_pc' = "returned" /\ merged' = Concat(frames)
    /\ UNCHANGED <<fetch_pc, fetch_arg, attempt, fetch_data, events, years,
                   year_i, cache, frames, run,
                   runVars, precipVars, baseVars, winVars, yearVars, mainVars,
                   trendVars, quantVars, orderVars, cleanVars>>

NextMerge == StartRun \/ LoadYear \/ Attempt \/ AfterFetch \/ EndLoop
SpecMerge == InitMerge /\ [][NextMerge]_vars

(* Step 6 of the cleaning script on a table of MaxCleanDays rows: temp_max *)
(* with any pattern of missing values, precipitation with a few            *)

Level(i) == 2520 * ((i * i) % 5)

MissingPatterns == [1..MaxCleanDays -> BOOLEAN]

PrecipGaps == {{}, {2, 3}, 2..5}

InitClean ==
    /\ \E miss \in MissingPatterns, gap \in PrecipGaps :
          raw_column =
              [temp_max |-> [i \in 1..MaxCleanDays |->
                                IF miss[i] THEN NaN ELSE Level(i)],
               precipitation |-> [i \in 1..MaxCleanDays |->
                                IF i \in gap THEN NaN ELSE 2520]]
    /\ clean_column = raw_column
    /\ data_quality = [i \in 1..MaxCleanDays |-> "ok"]
    /\ clean_pc = "first_pass"
    /\ RunIdle /\ PrecipIdle /\ BaseIdle /\ WinIdle /\ YearIdle /\ MainIdle
    /\ TrendIdle /\ QuantIdle /\ OrderIdle /\ FetchIdle

\* for col in NUMERIC_COLS: for run_start, run_end in runs: ...
FirstPass ==
    /\ clean_pc = "first_pass"
    /\ clean_column' = [col \in NUMERIC_COLS |->
                           FillShortRuns(clean_column[col],
                                         _nan_runs(clean_column[col]), 1)]
    /\ data_quality' = [i \in 1..Len(data_quality) |->
                           IF \E col \in NUMERIC_COLS :
                                  i \in LongRunRows(clean_column[col])
                           THEN LONG_GAP_LABEL ELSE data_quality[i]]
    /\ clean_pc' = "second_pass"
    /\ UNCHANGED <<raw_column,
                   runVars, precipVars, baseVars, winVars, yearVars, mainVars,
                   trendVars, quantVars, orderVars, fetchVars>>

\* Second pass: interpolate(limit=SHORT_GAP_MAX, limit_direction="both")
SecondPass ==
    /\ clean_pc = "second_pass"
    /\ clean_column' = [col \in NUMERIC_COLS |->
                           InterpolateBoth(clean_column[col], SHORT_GAP_MAX)]
    /\ clean_pc' = "interpolated"
    /\ UNCHANGED <<raw_column, data_quality,
                   runVars, precipVars, baseVars, winVars, yearVars, mainVars,
                   trendVars, quantVars, orderVars, fetchVars>>

NextClean == FirstPass \/ SecondPass
SpecClean == InitClean /\ [][NextClean]_vars

----------------------------------------------------------------------------
(* RunEncoder properties *)

AllTrueOn(f, i, j) == \A k \in i..j : f[k]

\* the lengths of all contiguous all-true segments of f
TrueSegmentLengths(f) ==
    {j - i + 1 : <<i, j>> \in {s \in (1..Len(f)) \X (1..Len(f)) :
                                 s[1] <= s[2] /\ AllTrueOn(f, s[1], s[2])}}

LongestTrueRun(f) ==
    LET L == TrueSegmentLengths(f) \cup {0}
    IN  CHOOSE m \in L : \A x \in L : x <= m

CountTrue(f) == Cardinality({i \in 1..Len(f) : f[i]})

\* the length of the maximal run of true that day i lies in (f[i] is true)
MaximalRunLengthAt(f, i) ==
    LET L == {j - a + 1 : <<a, j>> \in {s \in (1..i) \X (i..Len(f)) :
                                          AllTrueOn(f, s[1], s[2])}}
    IN  CHOOSE m \in L : \A x \in L : x <= m

DaysInQualifyingRuns(f, md) ==
    Cardinality({i \in 1..Len(f) : f[i] /\ MaximalRunLengthAt(f, i) >= md})

\* C1: _max_consecutive returns the length of the longest contiguous run of
\* true values; 0 for an empty or all-false sequence, never more than the
\* sequence length, and the sequence length when every value is true.
C1_LongestRun ==
    max_run # NotRun =>
        /\ max_run = LongestTrueRun(flags)
        /\ max_run <= Len(flags)
        /\ (~AnyTrue(flags) => max_run = 0)
        /\ (AllTrueOn(flags, 1, Len(flags)) => max_run = Len(flags))

\* the longest run is neither the first nor the last of several runs
C1_Witness ==
    /\ max_run = 3
    /\ Len(flags) = 8
    /\ flags[1] /\ ~flags[2] /\ flags[7] /\ flags[8] /\ ~flags[6]
    /\ CountTrue(flags) = 6

\* C2: _count_days_in_spells returns the sum of the lengths of the maximal
\* runs of true whose length is >= min_duration, each true day counted at
\* most once; for min_duration <= 1 that is the number of true values.
C2_DaysInQualifyingRuns ==
    spell_days # NotRun =>
        /\ spell_days = DaysInQualifyingRuns(flags, min_duration)
        /\ spell_days <= CountTrue(flags)
        /\ (min_duration <= 1 => spell_days = CountTrue(flags))
        /\ (Len(flags) = 0 => spell_days = 0)

\* one run qualifies exactly at the minimum and two shorter ones do not
C2_Witness ==
    /\ spell_days = 3
    /\ min_duration = 3
    /\ CountTrue(flags) = 6
    /\ Len(flags) = 8

----------------------------------------------------------------------------
(* Dry / wet spell properties *)

BothSpellsRun == cdd # NotRun /\ cwd # NotRun

\* C4 as stated: every day of the series is exactly one of dry or wet
C4_EveryDayDryOrWet ==
    BothSpellsRun =>
        \A i \in 1..Len(precip_series) : dry_flags[i] # wet_flags[i]

\* C4 (amended): no day is both dry and wet; a day with a non-missing
\* precipitation is exactly one of dry (< 1.0 mm) or wet (>= 1.0 mm), with
\* exactly 1.0 mm wet and not dry; a day with missing precipitation is
\* neither.
C4_DryWetPartition ==
    BothSpellsRun =>
        /\ Len(dry_flags) = Len(precip_series)
        /\ Len(wet_flags) = Len(precip_series)
        /\ \A i \in 1..Len(precip_series) :
              /\ ~(dry_flags[i] /\ wet_flags[i])
              /\ (~IsNaN(precip_series[i]) =>
                     /\ dry_flags[i] # wet_flags[i]
                     /\ dry_flags[i] = (precip_series[i] < 10)
                     /\ wet_flags[i] = (precip_series[i] >= 10))
              /\ (IsNaN(precip_series[i]) => ~dry_flags[i] /\ ~wet_flags[i])

\* a year with a day at exactly 1.0 mm, a day just below and a missing day
C4_Witness ==
    /\ BothSpellsRun
    /\ \E i, j, k \in 1..Len(precip_series) :
          /\ precip_series[i] = 10 /\ wet_flags[i] /\ ~dry_flags[i]
          /\ precip_series[j] = 9 /\ dry_flags[j]
          /\ IsNaN(precip_series[k])

IsDryDay(v) == ~IsNaN(v) /\ v < 10
IsWetDay(v) == ~IsNaN(v) /\ v >= 10

\* C5: all days 0 mm => CDD = n, CWD = 0; all days >= 1 mm => CWD = n,
\* CDD = 0; strictly alternating dry and wet days => CDD = CWD = 1; a single
\* wet (dry) day inside a dry (wet) stretch leaves the longer of the two
\* parts as the index.
C5_SpellEdgeCases ==
    BothSpellsRun =>
        LET p == precip_series
            n == Len(precip_series)
        IN  /\ ((\A i \in 1..n : p[i] = 0) => cdd = n /\ cwd = 0)
            /\ ((\A i \in 1..n : IsWetDay(p[i])) => cwd = n /\ cdd = 0)
            /\ ((/\ n >= 2
                 /\ \A i \in 1..n : ~IsNaN(p[i])
                 /\ \A i \in 1..(n - 1) : IsDryDay(p[i]) # IsDryDay(p[i + 1]))
                    => cdd = 1 /\ cwd = 1)
            /\ \A k \in 2..(n - 1) :
                  /\ ((/\ IsWetDay(p[k])
                       /\ \A i \in (1..n) \ {k} : IsDryDay(p[i]))
                          => cdd = Max(k - 1, n - k) /\ cwd = 1)
                  /\ ((/\ IsDryDay(p[k])
                       /\ \A i \in (1..n) \ {k} : IsWetDay(p[i]))
                          => cwd = Max(k - 1, n - k) /\ cdd = 1)

\* a wet stretch of days at exactly 1.0 mm split 1 + 3 by a single dry day
C5_Witness ==
    /\ BothSpellsRun
    /\ precip_series = <<10, 9, 10, 10, 10>>
    /\ cwd = 3
    /\ cdd = 1

----------------------------------------------------------------------------
(* CalendarBaseline properties *)

\* the non-missing values of the column on the rows of the baseline years
\* whose day-of-year satisfies Near
ValuedBaselineRow(r, c) == InBaseline(r) /\ ~IsNaN(Col(r, c))

WindowPool(d, c, day) ==
    ColumnOf(SelectSeq(d, LAMBDA r : /\ ValuedBaselineRow(r, c)
                                     /\ CircDist(r.day_of_year, day) <= 2), c)

ExactPool(d, c, day) ==
    ColumnOf(SelectSeq(d, LAMBDA r : /\ ValuedBaselineRow(r, c)
                                     /\ r.day_of_year = day), c)

AgreeOnBaseline(d1, d2) == SelectSeq(d1, InBaseline) = SelectSeq(d2, InBaseline)

\* C7: two series that agree on every row of the years
\* [baseline_start, baseline_end] get the same threshold on every day,
\* however they differ on the rows of other years.
C7_BaselineInvariance ==
    (p_by_doy # NotBuilt /\ p_other # NotBuilt /\ AgreeOnBaseline(df, df_other))
        => p_by_doy = p_other

\* the two series differ on a row after the baseline window, inflated to
\* 50 C, and the common threshold of day 1 is a number
C7_Witness ==
    /\ p_by_doy # NotBuilt
    /\ p_other # NotBuilt
    /\ \E i \in 1..Len(df) :
          /\ df[i].year = BASELINE_END + 1
          /\ i <= Len(df_other)
          /\ df_other[i].temp_max = 500
          /\ df[i].temp_max # 500
    /\ ~IsNaN(p_other[1])

\* C8: the pooling window of day d is the 5 distinct days d-2 .. d+2 taken
\* circularly on 1..366; day 1 pools {365, 366, 1, 2, 3} and day 366 pools
\* {364, 365, 366, 1, 2}.
C8_CircularWindow ==
    doy >= 1 =>
        LET W == {doys_in_window[k] : k \in 1..Len(doys_in_window)}
        IN  /\ Len(doys_in_window) = 5
            /\ Cardinality(W) = 5
            /\ W \subseteq 1..366
            /\ W = {d \in 1..366 : CircDist(d, doy) <= 2}
            /\ (doy = 1 => W = {365, 366, 1, 2, 3})
            /\ (doy = 366 => W = {364, 365, 366, 1, 2})

\* the window of the last day wraps to the first two
C8_Witness == doy = 366 /\ doys_in_window = <<364, 365, 366, 1, 2>>

\* C9: when no row of the baseline years has a value of the column, every
\* one of the 366 days is undefined.
C9_EmptyBaseline ==
    (/\ p_by_doy # NotBuilt
     /\ \A i \in 1..Len(df) : ~ValuedBaselineRow(df[i], column))
        => /\ DOMAIN p_by_doy = 1..366
           /\ \A day \in 1..366 : IsNaN(p_by_doy[day])

\* the baseline years have rows, all missing in the column, and the years
\* outside the baseline have values
C9_Witness ==
    /\ p_by_doy # NotBuilt
    /\ \E i \in 1..Len(df) : InBaseline(df[i])
    /\ \A i \in 1..Len(df) : ~ValuedBaselineRow(df[i], column)
    /\ \E i \in 1..Len(df) : ~InBaseline(df[i]) /\ ~IsNaN(Col(df[i], column))
    /\ \A day \in 1..366 : IsNaN(p_by_doy[day])

----------------------------------------------------------------------------
(* IndexCalculator properties *)

\* day i of the year has a temperature, a defined threshold, and the
\* temperature is strictly above the threshold
StrictlyAbove(ydf, c, p90, i) ==
    LET t == Col(ydf[i], c)
        k == ydf[i].day_of_year
    IN  /\ t # NaN
        /\ k \in DOMAIN p90
        /\ p90[k] # NaN
        /\ 100 * t > p90[k]

WarmFlags(ydf, p90) ==
    [i \in 1..Len(ydf) |-> StrictlyAbove(ydf, "temp_max", p90, i)]

\* the warm days form one run of consecutive days
SingleRun(f) ==
    /\ AnyTrue(f)
    /\ \A i, j \in 1..Len(f) : (f[i] /\ f[j] /\ i <= j) => AllTrueOn(f, i, j)

\* C3: calculate_wsdi counts exactly the days in maximal runs of at least 6
\* consecutive days with T_max strictly above the day's threshold; a year
\* whose warm days form a single run of L days gets L when L >= 6 and 0
\* when L <= 5.
C3_WarmSpellDays ==
    wsdi_days # NotRun =>
        LET w == WarmFlags(year_df, p90_tmax)
        IN  /\ wsdi_days = DaysInQualifyingRuns(w, 6)
            /\ (SingleRun(w) =>
                   wsdi_days = IF CountTrue(w) >= 6 THEN CountTrue(w) ELSE 0)
            /\ (~AnyTrue(w) => wsdi_days = 0)

\* eight days at 31.0 C of which day 1 only equals its threshold and day 8
\* has an undefined one: the run of days 2..7 counts 6
C3_Witness ==
    /\ wsdi_days = 6
    /\ Len(year_df) = 8
    /\ \A i \in 1..8 : year_df[i].temp_max = 310
    /\ p90_tmax = UnevenThresholds

ValidDays(ydf, c) == Cardinality({i \in 1..Len(ydf) : Col(ydf[i], c) # NaN})
AboveDays(ydf, c, p90) ==
    Cardinality({i \in 1..Len(ydf) : StrictlyAbove(ydf, c, p90, i)})

\* C10: TX90p and TN90p are 100 times the number of days strictly above
\* the day's threshold divided by the number of days of the year with a
\* non-missing value (reported to two decimals).
C10_ExceedanceRate ==
    /\ (tx90p # NotRun /\ ValidDays(year_df, "temp_max") > 0) =>
           tx90p = RoundRate(AboveDays(year_df, "temp_max", p90_tmax),
                             ValidDays(year_df, "temp_max"))
    /\ (tn90p # NotRun /\ ValidDays(year_df, "temp_min") > 0) =>
           tn90p = RoundRate(AboveDays(year_df, "temp_min", p90_tmin),
                             ValidDays(year_df, "temp_min"))

\* C11 as stated: TX90p and TN90p are undefined whenever the year has no
\* day with a value of the variable, be it a year without rows or a year
\* whose rows all miss the variable.
C11_UndefinedWithoutValidDays ==
    /\ (tx90p # NotRun /\ ValidDays(year_df, "temp_max") = 0) => tx90p = NaN
    /\ (tn90p # NotRun /\ ValidDays(year_df, "temp_min") = 0) => tn90p = NaN

\* day i cannot be compared: its value is missing, or its threshold is the
\* undefined marker or has no entry in the mapping
Incomparable(ydf, c, p90, i) ==
    \/ Col(ydf[i], c) = NaN
    \/ ydf[i].day_of_year \notin DOMAIN p90
    \/ p90[ydf[i].day_of_year] = NaN

ComparableDays(ydf, c, p90) ==
    Cardinality({i \in 1..Len(ydf) : ~Incomparable(ydf, c, p90, i)})

\* C12: in calculate_wsdi, calculate_tx90p and calculate_tn90p a day with
\* an undefined threshold (the marker, or no entry) or a missing temperature
\* never counts as exceeding: the warm spells are those of the comparable
\* days that are strictly above, and the rates count only such days.
C12_UndefinedNeverExceeds ==
    /\ wsdi_days # NotRun =>
          /\ wsdi_days = DaysInQualifyingRuns(WarmFlags(year_df, p90_tmax), 6)
          /\ wsdi_days <= ComparableDays(year_df, "temp_max", p90_tmax)
    /\ (tx90p # NotRun /\ Len(year_df) > 0) =>
          /\ tx90p = RoundRate(AboveDays(year_df, "temp_max", p90_tmax),
                               Len(year_df))
          /\ tx90p <= RoundRate(ComparableDays(year_df, "temp_max", p90_tmax),
                                Len(year_df))
    /\ (tn90p # NotRun /\ Len(year_df) > 0) =>
          /\ tn90p = RoundRate(AboveDays(year_df, "temp_min", p90_tmin),
                               Len(year_df))
          /\ tn90p <= RoundRate(ComparableDays(year_df, "temp_min", p90_tmin),
                                Len(year_df))

\* seven days at 31.0 C against thresholds of 30.0 C that are undefined on
\* day 4 and absent on day 5: no warm spell, and 5 of 7 days exceed
C12_Witness ==
    /\ Len(year_df) = 7
    /\ \A i \in 1..7 : year_df[i].temp_max = 310 /\ year_df[i].temp_min = 310
    /\ p90_tmax = GappyThresholds
    /\ p90_tmin = GappyThresholds
    /\ wsdi_days = 0
    /\ tx90p = 7143
    /\ tn90p = 7143

----------------------------------------------------------------------------
(* Annual record properties *)

\* the rows of the daily series that belong to a year
DaysOfYear(y) == {i \in 1..Len(df) : df[i].year = y}

\* the days of a year whose value in a column is present and at least t
DaysAtLeast(y, name, t) ==
    {i \in DaysOfYear(y) : df[i][name] # NaN /\ df[i][name] >= t}

\* C13: for every year, su25, su30 and tr20 are the numbers of days with
\* T_max >= 25.0, T_max >= 30.0 and T_min >= 20.0: a value equal to the
\* threshold is counted, a missing value is not.
C13_ThresholdCounts ==
    \A k \in 1..Len(records) :
        LET y == records[k].year
        IN  /\ records[k].su25 = Cardinality(DaysAtLeast(y, "temp_max", 250))
            /\ records[k].su30 = Cardinality(DaysAtLeast(y, "temp_max", 300))
            /\ records[k].tr20 = Cardinality(DaysAtLeast(y, "temp_min", 200))

\* a year of three days: T_max at exactly 30.0 C with T_min at exactly
\* 20.0 C, T_max just below 30.0 C, and a day without T_max
C13_Witness ==
    /\ Len(records) = 1
    /\ Len(df) = 3
    /\ df[1].temp_max = 300 /\ df[1].temp_min = 200
    /\ df[2].temp_max = 299 /\ df[2].temp_min = 199
    /\ df[3].temp_max = NaN /\ df[3].temp_min = 210
    /\ records[1].su30 = 1 /\ records[1].su25 = 2 /\ records[1].tr20 = 2

\* C14 as stated: precip_days of a year is the count of days whose
\* precipitation is strictly greater than 1 mm, a day with exactly 1.0 mm
\* not being counted.
C14_PrecipDaysStrict ==
    \A k \in 1..Len(records) :
        records[k].precip_days =
            Cardinality({i \in DaysOfYear(records[k].year) :
                            df[i].precipitation # NaN
                            /\ df[i].precipitation > 10})

\* what day i adds to the growing degree days, in twentieths of a degree:
\* max(0, (T_max + T_min) / 2 - 10), and 0 when a temperature is missing
GddShare(i) ==
    IF df[i].temp_max = NaN \/ df[i].temp_min = NaN THEN 0
    ELSE IF df[i].temp_max + df[i].temp_min > 200
         THEN df[i].temp_max + df[i].temp_min - 200
         ELSE 0

RECURSIVE GddSum(_)
GddSum(S) ==
    IF S = {} THEN 0
    ELSE LET i == CHOOSE j \in S : TRUE
         IN  GddShare(i) + GddSum(S \ {i})

\* C15: the annual gdd is the sum over the days of the year of
\* max(0, (T_max + T_min)/2 - 10), reported to one decimal: a day with a
\* missing temperature adds 0 and leaves the sum defined, a day below the
\* base adds 0, and gdd >= 0.
C15_GrowingDegreeDays ==
    \A k \in 1..Len(records) :
        LET exact == GddSum(DaysOfYear(records[k].year))
            gdd   == records[k].gdd
        IN  /\ gdd # NaN
            /\ gdd >= 0
            /\ 2 * gdd - exact <= 1
            /\ exact - 2 * gdd <= 1

\* a day of 31.0 / 8.5 C (9.75 degree days), a day below the base and a day
\* without T_max: the sum is 9.75, reported as 9.7 or 9.8
C15_Witness ==
    /\ Len(records) = 1
    /\ Len(df) = 3
    /\ df[1].temp_max = 310 /\ df[1].temp_min = 85
    /\ df[2].temp_max = 120 /\ df[2].temp_min = 50
    /\ df[3].temp_max = NaN /\ df[3].temp_min = 210
    /\ records[1].gdd = 98

\* the days of year y with T_max >= 30.0 C, as days of the year
HotDoys(y) == {df[i].day_of_year : i \in DaysAtLeast(y, "temp_max", 300)}

\* C16: for every year, without a day of T_max >= 30.0 first_hot_day and
\* last_hot_day are undefined and hot_season_length is 0; otherwise they are
\* the smallest and the largest day-of-year with T_max >= 30.0,
\* first_hot_day <= last_hot_day, and hot_season_length is their
\* difference.  hot_season_length is always a defined number >= 0.
C16_HotSeason ==
    \A k \in 1..Len(records) :
        LET r   == records[k]
            hot == HotDoys(r.year)
        IN  /\ r.hot_season_length # NaN /\ r.hot_season_length >= 0
            /\ (hot = {} => /\ r.first_hot_day = NaN
                            /\ r.last_hot_day = NaN
                            /\ r.hot_season_length = 0)
            /\ (hot # {} => /\ r.first_hot_day \in hot
                            /\ r.last_hot_day \in hot
                            /\ \A d \in hot : /\ r.first_hot_day <= d
                                              /\ d <= r.last_hot_day
                            /\ r.first_hot_day <= r.last_hot_day
                            /\ r.hot_season_length =
                                   r.last_hot_day - r.first_hot_day)

\* hot days on days 363 and 365 with a day without T_max between them
C16_Witness ==
    /\ Len(records) = 1
    /\ Len(df) = 3
    /\ df[1].day_of_year = 363 /\ df[1].temp_max = 300
    /\ df[2].temp_max = NaN
    /\ df[3].temp_max = 310
    /\ records[1].first_hot_day = 363
    /\ records[1].last_hot_day = 365
    /\ records[1].hot_season_length = 2

\* the annual rows up to 1980 that have a mean temperature
ReferenceRows == {k \in 1..Len(records) :
                     /\ records[k].year <= 1980
                     /\ records[k].temp_mean_annual # NaN}

RECURSIVE ReferenceSum(_)
ReferenceSum(K) ==
    IF K = {} THEN 0
    ELSE LET k == CHOOSE j \in K : TRUE
         IN  records[k].temp_mean_annual + ReferenceSum(K \ {k})

\* C20: the anomaly of every annual row is its annual mean temperature
\* minus the mean of the annual means of the rows with year <= 1980
\* (reported to two decimals), and it is computed only once every year has
\* its row; when no row has year <= 1980 the anomaly is undefined for every
\* year, never the deviation from the full-period mean.
C20_Anomaly ==
    /\ (annual # << >>) =>
          /\ Len(records) = Cardinality({df[i].year : i \in 1..Len(df)})
          /\ Len(annual) = Len(records)
    /\ \A i \in 1..Len(annual) :
          LET n     == Cardinality(ReferenceRows)
              a     == annual[i].temp_mean_annual
              exact == n * a - ReferenceSum(ReferenceRows)
          IN  /\ annual[i].year = records[i].year
              /\ a = records[i].temp_mean_annual
              /\ ((\A k \in 1..Len(records) : records[k].year > 1980) =>
                     annual[i].anomaly = NaN)
              /\ ((n = 0 \/ a = NaN) => annual[i].anomaly = NaN)
              /\ ((n > 0 /\ a # NaN) =>
                     /\ annual[i].anomaly # NaN
                     /\ 2 * (n * annual[i].anomaly - exact) <= n
                     /\ 2 * (exact - n * annual[i].anomaly) <= n)

\* 1978-1980 at 20.0, 20.0 and 21.7 C and 1981 at 21.7 C: the reference
\* mean is 20.5667 C and the anomaly of 1981 is 1.13
C20_Witness ==
    /\ Len(annual) = 4
    /\ annual[1].temp_mean_annual = 2000
    /\ annual[2].temp_mean_annual = 2000
    /\ annual[3].year = 1980 /\ annual[3].temp_mean_annual = 2170
    /\ annual[4].year = 1981 /\ annual[4].anomaly = 113

----------------------------------------------------------------------------
(* TrendAnalyzer properties *)

\* the positions of the series that hold a value
ValidPoints == {i \in 1..Len(series) : series[i] # NaN}

\* rising minus falling pairs of valid points, taken in time order
RankScore ==
    LET pairs == {q \in ValidPoints \X ValidPoints : q[1] < q[2]}
    IN  Cardinality({q \in pairs : series[q[1]] < series[q[2]]})
          - Cardinality({q \in pairs : series[q[1]] > series[q[2]]})

AllValidEqual == \A i, j \in ValidPoints : series[i] = series[j]

\* what the order of the valid values alone says about the direction
DirectionOfOrder ==
    IF RankScore > 0 THEN "increasing"
    ELSE IF RankScore < 0 THEN "decreasing" ELSE "no_trend"

\* fewer than 3 valid points <=> "insufficient_data", and then tau and the
\* p-value are undefined
InsufficientExactly ==
    /\ (Cardinality(ValidPoints) < 3 =>
           /\ mk.trend_direction = "insufficient_data"
           /\ mk.tau = NaN /\ mk.p_value = NaN)
    /\ (Cardinality(ValidPoints) >= 3 =>
           mk.trend_direction # "insufficient_data")

\* C17 as stated: "insufficient_data" with undefined tau and p-value exactly
\* for fewer than 3 non-missing points; with 3 or more the direction is
\* increasing iff tau > 0, decreasing iff tau < 0, no_trend iff tau is zero,
\* and it depends on the order of the non-missing values only.
C17_DirectionBySign ==
    mk # << >> =>
        /\ InsufficientExactly
        /\ (Cardinality(ValidPoints) >= 3 =>
               /\ (mk.trend_direction = "increasing" <=> Gt(mk.tau, 0))
               /\ (mk.trend_direction = "decreasing" <=> Lt(mk.tau, 0))
               /\ (mk.trend_direction = "no_trend" <=> mk.tau = 0)
               /\ mk.trend_direction = DirectionOfOrder)

\* C17, amended: as above, but with 3 or more points the direction is
\* no_trend iff tau is zero or undefined; tau (and with it the p-value) is
\* undefined exactly when all non-missing values are equal.
C17_DirectionBySignOrUndefined ==
    mk # << >> =>
        /\ InsufficientExactly
        /\ (Cardinality(ValidPoints) >= 3 =>
               /\ (mk.trend_direction = "increasing" <=> Gt(mk.tau, 0))
               /\ (mk.trend_direction = "decreasing" <=> Lt(mk.tau, 0))
               /\ (mk.trend_direction = "no_trend" <=>
                      (mk.tau = 0 \/ mk.tau = NaN))
               /\ (mk.tau = NaN <=> AllValidEqual)
               /\ (mk.p_value = NaN <=> mk.tau = NaN)
               /\ (mk.tau # NaN => mk.tau >= 0 - 10000 /\ mk.tau <= 10000)
               /\ mk.trend_direction = DirectionOfOrder)

\* three equal values around a missing one: no_trend with tau undefined
C17_Witness ==
    /\ series = <<2, NaN, 2, 2>>
    /\ mk # << >>
    /\ mk.trend_direction = "no_trend"
    /\ mk.tau = NaN

RECURSIVE SumOver(_, _)
SumOver(S, f) ==
    IF S = {} THEN 0
    ELSE LET i == CHOOSE j \in S : TRUE
         IN  f[i] + SumOver(S \ {i}, f)

\* least squares on the valid (year, value) pairs: the slope is
\* SlopeNum / SlopeDen
Products(a, b) == [i \in 1..Len(series) |-> a[i] * b[i]]
SlopeNum ==
    Cardinality(ValidPoints) * SumOver(ValidPoints, Products(trend_years, series))
      - SumOver(ValidPoints, trend_years) * SumOver(ValidPoints, series)
SlopeDen ==
    Cardinality(ValidPoints) * SumOver(ValidPoints, Products(trend_years, trend_years))
      - SumOver(ValidPoints, trend_years) * SumOver(ValidPoints, trend_years)

\* v is num / den rounded to a whole number (den > 0)
IsRounded(v, num, den) ==
    /\ 2 * (v * den - num) <= den
    /\ 2 * (num - v * den) <= den

\* C18: linear_regression_trend drops the pairs whose value is missing; with
\* fewer than 3 pairs left all five fields are undefined, with 3 or more
\* all five are defined numbers computed from the remaining pairs only.
C18_LinearTrendFields ==
    lr # << >> =>
        /\ (Cardinality(ValidPoints) < 3 =>
               /\ lr.slope = NaN /\ lr.intercept = NaN /\ lr.r_squared = NaN
               /\ lr.p_value = NaN /\ lr.slope_per_decade = NaN)
        /\ (Cardinality(ValidPoints) >= 3 =>
               /\ lr.slope # NaN /\ lr.intercept # NaN /\ lr.r_squared # NaN
               /\ lr.p_value # NaN /\ lr.slope_per_decade # NaN
               /\ IsRounded(lr.slope, 10000 * SlopeNum, SlopeDen)
               /\ lr.r_squared >= 0 /\ lr.r_squared <= 10000
               /\ lr.p_value >= 0 /\ lr.p_value <= 10000
               \* the fitted line passes through the mean point
               /\ LET n  == Cardinality(ValidPoints)
                      sx == SumOver(ValidPoints, trend_years)
                      sy == SumOver(ValidPoints, series)
                      d  == n * lr.intercept + lr.slope * sx - 10000 * sy
                  IN  2 * d <= n + sx /\ 2 * (0 - d) <= n + sx)

\* 2000, 2002, 2003, 2004 with values 1, 3, 2, 3 (2001 is missing): the
\* slope is 15/35
C18_Witness ==
    /\ series = <<1, NaN, 3, 2, 3>>
    /\ lr # << >>
    /\ lr.slope = 4286
    /\ lr.r_squared # NaN /\ lr.intercept # NaN

\* C19 as stated: with at least 3 valid points the reported
\* slope_per_decade equals the reported slope multiplied by 10.
C19_DecadeIsTenTimesSlope ==
    (lr # << >> /\ Cardinality(ValidPoints) >= 3) =>
        lr.slope_per_decade = 10 * lr.slope

\* C19, amended: slope_per_decade is ten times the unrounded slope, rounded
\* to four decimals on its own; it is within 0.0005 of ten times the
\* reported slope.
C19_DecadeOfUnroundedSlope ==
    (lr # << >> /\ Cardinality(ValidPoints) >= 3) =>
        /\ IsRounded(lr.slope_per_decade, 100000 * SlopeNum, SlopeDen)
        /\ lr.slope_per_decade - 10 * lr.slope <= 5
        /\ 10 * lr.slope - lr.slope_per_decade <= 5

\* 2000, 2001, 2003 with values 1, 1, 2: slope 5/14 = 0.357142..., reported
\* as 0.3571, and as 3.5714 per decade
C19_Witness ==
    /\ series = <<1, 1, NaN, 2>>
    /\ lr # << >>
    /\ lr.slope = 3571
    /\ lr.slope_per_decade = 35714

----------------------------------------------------------------------------
(* Aggregator properties *)

\* the annual rows whose year lies in the ten years from d on and that have
\* a value in column c
ValuedRowsOfDecade(d, c) ==
    {i \in 1..Len(annual) : /\ annual[i].year >= d
                            /\ annual[i].year <= d + 9
                            /\ annual[i][c] # NaN}

AnnualColumn(c) == [i \in 1..Len(annual) |-> annual[i][c]]

\* C21: every annual row lies in exactly one decade, decade = year // 10 *
\* 10, so decade <= year <= decade + 9; the decadal table has exactly one
\* row per decade that occurs; each decadal value is the arithmetic mean
\* (of the values present, to two decimals) of the column over the annual
\* rows of the decade.
C21_DecadalMeans ==
    main_pc = "save" =>
        /\ \A i \in 1..Len(annual) :
              /\ annual[i].decade % 10 = 0
              /\ annual[i].decade <= annual[i].year
              /\ annual[i].year <= annual[i].decade + 9
        /\ {decadal[k].decade : k \in 1..Len(decadal)}
              = {annual[i].decade : i \in 1..Len(annual)}
        /\ \A k, l \in 1..Len(decadal) :
              decadal[k].decade = decadal[l].decade => k = l
        /\ \A k \in 1..Len(decadal) :
              \A c \in DOMAIN decadal[k] \ {"decade"} :
                  LET rows == ValuedRowsOfDecade(decadal[k].decade, c)
                  IN  IF rows = {} THEN decadal[k][c] = NaN
                      ELSE /\ decadal[k][c] # NaN
                           /\ IsRounded(decadal[k][c],
                                  HundredthsPerUnit(c)
                                    * SumOver(rows, AnnualColumn(c)),
                                  Cardinality(rows))

\* the years 2000..2009 with su30 = 1, 2, ..., 10: one decade, mean 5.5
C21_Witness ==
    /\ main_pc = "save"
    /\ Len(annual) = 10
    /\ \A i \in 1..10 : annual[i].year = 1999 + i /\ annual[i].su30 = i
    /\ Len(decadal) = 1
    /\ decadal[1].decade = 2000
    /\ decadal[1].su30 = 550

\* C22 as stated: the decadal table carries the mean of every numeric field
\* of the annual rows: every annual column other than year and decade has a
\* decadal mean column.
C22_EveryNumericField ==
    main_pc = "save" =>
        \A k \in 1..Len(decadal) :
            DOMAIN decadal[k] \ {"decade"}
                = DOMAIN annual[1] \ {"year", "decade"}

\* the daily variables a field of the annual record is computed from
VariablesOf(f) ==
    IF f \in {"su25", "su30", "temp_max_mean", "wsdi_days", "tx90p",
              "p95_days", "first_hot_day", "last_hot_day",
              "hot_season_length"} THEN {"temp_max"}
    ELSE IF f \in {"tr20", "temp_min_mean", "tn90p"} THEN {"temp_min"}
    ELSE IF f \in {"dtr_mean", "gdd"} THEN {"temp_max", "temp_min"}
    ELSE IF f = "temp_mean_annual" THEN {"temp_mean"}
    ELSE IF f \in {"precip_total", "precip_days", "cdd", "cwd"}
         THEN {"precipitation"}
    ELSE {}

\* the field that holds the annual mean of a variable
MeanFieldOf ==
    [temp_max |-> "temp_max_mean", temp_min |-> "temp_min_mean",
     temp_mean |-> "temp_mean_annual"]

\* variable c is missing on every day of year y of the series
MissingAllYear(c, y) ==
    /\ DaysOfYear(y) # {}
    /\ \A i \in DaysOfYear(y) : df[i][c] = NaN

\* the annual records the complete series gives for a year, one for each
\* way an exact half can be rounded
RecordsIfPresent(y) ==
    LET p90x == build_calendar_day_percentile(df_other, "temp_max",
                    BASELINE_START, BASELINE_END, 90)
        p90n == build_calendar_day_percentile(df_other, "temp_min",
                    BASELINE_START, BASELINE_END, 90)
        p95  == Percentile(DropNa(Field(df_other, "temp_max")), 95)
    IN  {YearRecord(y, RowsOfYear(df_other, y), p90x, p90n, p95, up) :
            up \in BOOLEAN}

----------------------------------------------------------------------------
(* Percentile order properties *)

BothBuilt == p_by_doy # NotBuilt /\ p_by_doy_q # NotBuilt

\* C24: for one series, column and baseline window and two percentiles
\* p <= q, the threshold for p is defined on the same days as the threshold
\* for q, and on each of them it is less than or equal to it.
C24_MonotoneInPercentile ==
    BothBuilt =>
        \A d \in 1..DaysInCycle :
            /\ IsNaN(p_by_doy[d]) <=> IsNaN(p_by_doy_q[d])
            /\ ~IsNaN(p_by_doy[d]) => p_by_doy[d] <= p_by_doy_q[d]

\* both thresholds built from a baseline of at least ten values, strictly
\* apart on day 1, with some day of the cycle left without a threshold
C24_Witness ==
    /\ BothBuilt
    /\ percentile = 50 /\ percentile_q = 90
    /\ Len(BaselineRows(df, column, BASELINE_START, BASELINE_END))
           >= MinPool
    /\ ~IsNaN(p_by_doy[1]) /\ p_by_doy[1] < p_by_doy_q[1]
    /\ \E d \in 1..DaysInCycle : IsNaN(p_by_doy[d])

----------------------------------------------------------------------------
(* Order of the per-day computations *)

AllDaysWritten ==
    /\ pending = {} /\ DOMAIN windows = {}
    /\ OtherDays \subseteq DOMAIN result

C25_WitnessInterleaved ==
    /\ Cardinality(DOMAIN windows) >= 2
    /\ \E d \in DOMAIN result, e \in DOMAIN windows : d \in FocusDays /\ e < d

----------------------------------------------------------------------------
(* Fetcher properties *)

GetsOf(year) ==
    {i \in 1..Len(events) : events[i].e = "get" /\ events[i].year = year}

Failed(ev) == ev.out \in ErrorKinds

FetchEnded == fetch_pc \in {"returned", "RuntimeError", "AttributeError"}

\* the requests and waits of the call in progress are the last events
RetryBackoffOf(year) ==
    LET gets == GetsOf(year)
    IN  /\ Cardinality(gets) <= MAX_RETRIES
        /\ \A i \in gets :
              /\ events[i].n = Cardinality({j \in gets : j <= i})
              /\ Failed(events[i]) /\ events[i].n = 1 =>
                    /\ i < Len(events)
                    /\ events[i + 1] = Event("sleep", year, 1, "none")
              /\ Failed(events[i]) /\ events[i].n = 2 =>
                    /\ i < Len(events)
                    /\ events[i + 1] = Event("sleep", year, 2, "none")
              /\ Failed(events[i]) /\ events[i].n = MAX_RETRIES =>
                    \/ i = Len(events)
                    \/ events[i + 1].e # "sleep"
              /\ ~Failed(events[i]) => \A j \in gets : j <= i
        /\ \A i \in 1..Len(events) :
              events[i].e = "sleep" /\ events[i].year = year =>
                  i > 1 /\ (i - 1) \in gets /\ Failed(events[i - 1])

C26_Safe ==
    /\ RetryBackoffOf(fetch_arg)
    /\ fetch_pc = "returned" =>
          /\ Len(events) > 0
          /\ events[Len(events)].e = "get"
          /\ ~Failed(events[Len(events)])
          /\ fetch_data = Body(fetch_arg, events[Len(events)].out)
          /\ \A i \in GetsOf(fetch_arg) : i < Len(events) => Failed(events[i])
    /\ fetch_pc = "RuntimeError" <=>
          Cardinality({i \in GetsOf(fetch_arg) : Failed(events[i])}) = MAX_RETRIES

C26_WitnessExhausted ==
    /\ fetch_pc = "RuntimeError"
    /\ Len(events) = 5
    /\ events[5].e = "get" /\ Failed(events[5])

(* Cache properties *)

\* the events a step appends (a new run starts with an empty log)
EventsAdded ==
    IF Len(events') >= Len(events) /\ SubSeq(events', 1, Len(events)) = events
    THEN SubSeq(events', Len(events) + 1, Len(events'))
    ELSE events'

FetchedBodies(year) ==
    {events[i].out : i \in {j \in GetsOf(year) :
                                /\ ~Failed(events[j])
                                /\ ~RowsRaises(Body(year, events[j].out))}}

C27_Step ==
    LET added == EventsAdded
    IN  \* a cache file, once written, stays as it is
        /\ \A y \in DOMAIN cache : y \in DOMAIN cache' /\ cache'[y] = cache[y]
        \* no request for a year that has a cache file
        /\ \A k \in 1..Len(added) :
              added[k].e = "get" => added[k].year \notin DOMAIN cache
        \* without a cache file the API is called next
        /\ \A k \in 1..Len(added) :
              added[k].e = "load" /\ added[k].out = "miss" =>
                  /\ added[k].year \notin DOMAIN cache
                  /\ fetch_pc' = "request" /\ fetch_arg' = added[k].year
        \* a response that fetch_year returned is saved, and before it is used
        /\ merge_pc = "fetching" /\ fetch_pc = "returned" =>
              /\ fetch_arg \in DOMAIN cache' /\ cache'[fetch_arg] = fetch_data
              /\ \E j \in 1..Len(added) :
                    /\ added[j].e = "save" /\ added[j].year = fetch_arg
                    /\ \A k \in 1..Len(added) : added[k].e = "parse" => j < k

C27_Cached ==
    \A i \in 1..Len(years) :
        LET year == years[i]
        IN  (i <= year_i /\ FetchedBodies(year) # {}) =>
                /\ year \in DOMAIN cache
                /\ FetchedBodies(year) = {cache[year].daily}

\* C27: a year with a cache file is never requested from the API; a year
\* without one is, and a response fetch_year returns is written to the cache
\* before it is converted; cache files stay, so every year fetched in a run
\* has its file afterwards and no later run requests it.
C27_CacheBeforeApi == [](C27_Cached) /\ [][C27_Step]_vars

\* second run: 1940 comes from the cache without a request, 1941, which
\* failed in the first run, is fetched, saved and then converted
C27_Witness ==
    /\ run = 2 /\ merge_pc = "returned"
    /\ DOMAIN cache = {START_YEAR, START_YEAR + 1}
    /\ Len(events) = 6
    /\ events[1] = Event("load", START_YEAR, 0, "hit")
    /\ events[2] = Event("parse", START_YEAR, 0, "frame")
    /\ events[3] = Event("load", START_YEAR + 1, 0, "miss")
    /\ events[4] = Event("get", START_YEAR + 1, 1, "rows")
    /\ events[5] = Event("save", START_YEAR + 1, 0, "rows")
    /\ events[6] = Event("parse", START_YEAR + 1, 0, "frame")

(* Merge properties *)

\* the years of this run that gave a frame, in the order requested
RECURSIVE FramesExpected(_)
FramesExpected(i) ==
    IF i = 0 THEN << >>
    ELSE LET year == years[i]
             parsed == \E k \in 1..Len(events) :
                          events[k] = Event("parse", year, 0, "frame")
         IN  IF parsed THEN Append(FramesExpected(i - 1), <<[year |-> year]>>)
             ELSE FramesExpected(i - 1)

\* C28 as stated: no year's failure stops the loop over the remaining
\* years (the call ends only after the last year); the merged table holds
\* the rows of the parsed years in the order requested; RuntimeError is
\* raised if and only if no year gave a frame.
C28_FailedYearsSkipped ==
    MergeEnded =>
        /\ year_i = Len(years)
        /\ frames = FramesExpected(Len(years))
        /\ merge_pc = "RuntimeError" <=> Len(frames) = 0
        /\ merge_pc = "returned" => merged = Concat(frames)
        /\ merge_pc \in {"returned", "RuntimeError"}

\* C29 as stated: every cached response converts to a data frame, and no
\* year read from the cache is skipped with a parse error.
C29_CachedIsUsable ==
    /\ \A y \in DOMAIN cache : ~ParseRaises(cache[y])
    /\ \A k \in 1..Len(events) :
          (events[k].e = "load" /\ events[k].out = "hit") =>
              /\ k < Len(events)
              /\ events[k + 1] = Event("parse", events[k].year, 0, "frame")

----------------------------------------------------------------------------
(* Cleaner properties *)

RunRows(r) == r[1]..r[2]

BetweenValid(s, r) == r[1] > 1 /\ r[2] < Len(s)

\* C30 as stated: after the interpolation step, every run of more than
\* SHORT_GAP_MAX missing values of a numeric column is flagged
\* 'interpolated_long' and still has a missing value, and every run of at
\* most SHORT_GAP_MAX missing values between valid values is filled with
\* the linear interpolation and its rows keep data_quality 'ok'.
C30_LongGapsKept ==
    clean_pc = "interpolated" =>
        \A col \in NUMERIC_COLS :
            LET raw  == raw_column[col]
                runs == _nan_runs(raw)
            IN  \A k \in 1..Len(runs) :
                    IF runs[k][2] - runs[k][1] + 1 > SHORT_GAP_MAX
                    THEN /\ \A i \in RunRows(runs[k]) :
                              data_quality[i] = LONG_GAP_LABEL
                         /\ \E i \in RunRows(runs[k]) :
                              IsNaN(clean_column[col][i])
                    ELSE BetweenValid(raw, runs[k]) =>
                             \A i \in RunRows(runs[k]) :
                                 /\ clean_column[col][i] = Linear(raw, i)
                                 /\ data_quality[i] = "ok"

====
